---- MODULE Spec2Model ----
(***************************************************************************)
(* A model of the minimal BitTorrent client: the piece coordinator         *)
(* (PieceManager), the peer session (PeerConnection.run) and the swarm     *)
(* supervisor (TorrentClient.start).                                       *)
(*                                                                         *)
(* Byte strings are kept in run-length form: a sequence of runs            *)
(* [n |-> count, v |-> byte value] in which no two adjacent runs carry the *)
(* same value.  Every byte string has exactly one such form, so equality   *)
(* of forms is equality of byte strings.                                   *)
(***************************************************************************)
EXTENDS Integers, Sequences, FiniteSets, TLC

\* ------------------------------------------------------------------------
\* Bounds of the model
\* ------------------------------------------------------------------------
\* number of distinct peer endpoints a tracker can hand out
NumEndpoints == 2
\* longest peer list in one tracker response
MaxResp == 2
\* number of messages kept of what a session sends on one connection
MaxSent == 5
\* number of reads and requests of one session that are followed
MaxOps == 5
\* number of reads and sends of one session that are followed while time
\* passes
MaxTimedOps == 3

\* ------------------------------------------------------------------------
\* Program constants
\* ------------------------------------------------------------------------
BLOCK_SIZE == 16384
max_retries == 3
max_failures == 3
KEEPALIVE_INTERVAL == 120

\* ------------------------------------------------------------------------
\* Byte strings
\* ------------------------------------------------------------------------
\* len(d) of a byte string: the sum of the lengths of its runs
\* (the operand x is evaluated once and bound to d)
RECURSIVE ByteLen(_)
ByteLen(x) ==
    CHOOSE r \in { IF d = <<>> THEN 0 ELSE d[1].n + ByteLen(Tail(d)) : d \in {x} } : TRUE

\* b"".join of two byte strings
\* (the operands x and y are evaluated once and bound to a and b)
Cat(x, y) ==
    CHOOSE r \in
        { IF a = <<>> THEN b
          ELSE IF b = <<>> THEN a
          ELSE IF a[Len(a)].v = b[1].v
               THEN SubSeq(a, 1, Len(a) - 1)
                    \o <<[n |-> a[Len(a)].n + b[1].n, v |-> b[1].v]>>
                    \o Tail(b)
               ELSE a \o b : a \in {x}, b \in {y} } : TRUE

\* a run of k bytes of value v
Run(k, v) == IF k <= 0 THEN <<>> ELSE <<[n |-> k, v |-> v]>>

Min(a, b) == IF a < b THEN a ELSE b

Max(a, b) == IF a > b THEN a ELSE b

\* d[lo:hi] of Python (0 <= lo, hi may exceed the length): every run of d is
\* clipped to the byte positions lo..hi-1 and the runs left empty are dropped
\* (the operands are evaluated once and bound to d, lo and hi)
Slice(x, from, to) ==
    CHOOSE r \in
        { LET Start(k) == ByteLen(SubSeq(d, 1, k - 1))
              clipped  == [k \in 1..Len(d) |->
                              [n |-> Min(hi, Start(k) + d[k].n) - Max(lo, Start(k)),
                               v |-> d[k].v]]
          IN SelectSeq(clipped, LAMBDA c : c.n > 0)
          : d \in {x}, lo \in {from}, hi \in {to} } : TRUE

SetMin(S) == CHOOSE x \in S : \A y \in S : x <= y

\* hashlib.sha1(d).digest(): a collision-free digest of the byte string
SHA1(d) == <<"sha1", d>>

\* ------------------------------------------------------------------------
\* The torrent: the original content and its metainfo
\* ------------------------------------------------------------------------
\* The content that was hashed into the metainfo: the g-th 16 KiB of the
\* content consists of bytes of value g+1 (byte value 0 never occurs in it).
RECURSIVE ContentFrom(_, _)
ContentFrom(g, left) ==
    IF left <= 0 THEN <<>>
    ELSE Cat(Run(Min(BLOCK_SIZE, left), g + 1), ContentFrom(g + 1, left - BLOCK_SIZE))

Content(total) == ContentFrom(0, total)

\* number of pieces of a well-formed torrent
NumPieces(pl, total) == (total + pl - 1) \div pl

\* the i-th piece of the content
TruePiece(pl, total, i) == Slice(Content(total), i * pl, Min((i + 1) * pl, total))

\* info dictionary of a torrent of `total` bytes in pieces of `pl` bytes
\* (files = <<>> in single-file mode)
MakeInfo(pl, total, files) ==
    [piece_length |-> pl,
     length       |-> total,
     files        |-> files,
     pieces       |-> [k \in 1..NumPieces(pl, total) |-> SHA1(TruePiece(pl, total, k - 1))]]

\* the torrents the model is run on
Torrents == { MakeInfo(32768, 32772, <<>>) }

VARIABLES
    info,              \* the info dictionary of the torrent (immutable)
    piece_info,        \* PieceManager.piece_info
    completed_pieces,  \* PieceManager.completed_pieces
    lock,              \* PieceManager.lock: 0 when free, else the session holding it
    ret,               \* the last direct call of a coordinator operation and its result
    peer_connections,  \* TorrentClient.peer_connections: the PeerConnection threads
    issued,            \* per session, the (piece, offset) pairs get_next_request
                       \* returned to it since the piece's requested set was last emptied
    peerq,             \* per session, the messages its peer has queued for it
    socklog,           \* per session, what it has done on its socket so far:
                       \* connections opened, messages sent, outcomes of reads,
                       \* outcomes of the last reads and writes in steady state,
                       \* the seconds since last_activity, and whether the
                       \* keep-alive test of the current iteration is made
    sup,               \* the supervisor: position in start(), existing_peers,
                       \* last_completed, stagnant_time
    output             \* the bytes written to the output file (NoFile before open)

pmvars == <<piece_info, completed_pieces, lock>>
callvars == <<ret>>
sessvars == <<peer_connections, issued, peerq, socklog>>
vars == <<info, piece_info, completed_pieces, lock, ret,
          peer_connections, issued, peerq, socklog, sup, output>>

\* ------------------------------------------------------------------------
\* PieceManager
\* ------------------------------------------------------------------------
None == <<>>

total_pieces(inf) == Len(inf.pieces)

total_length(inf) ==
    IF inf.files = <<>> THEN inf.length
    ELSE LET RECURSIVE Sum(_)
             Sum(fs) == IF fs = <<>> THEN 0 ELSE fs[1].length + Sum(Tail(fs))
         IN Sum(inf.files)

PieceIds(inf) == 0..(total_pieces(inf) - 1)

\* expected_length as it would be were the last piece taken to be as long
\* as the others
expected_length_Uniform(inf, i) == inf.piece_length

expected_length(inf, i) ==
    IF i < total_pieces(inf) - 1
    THEN inf.piece_length
    ELSE total_length(inf) - inf.piece_length * (total_pieces(inf) - 1)

PieceManagerInit(inf) ==
    [i \in PieceIds(inf) |->
        [expected_length |-> expected_length(inf, i),
         blocks          |-> <<>>,
         requested       |-> {},
         complete        |-> FALSE]]

\* ScanOffsets as it would be were the loop bound taken for whole blocks
\* only: the short trailing block is never reached
RECURSIVE ScanOffsets_WholeBlocks(_, _)
ScanOffsets_WholeBlocks(p, offset) ==
    IF offset + BLOCK_SIZE > p.expected_length THEN -1
    ELSE IF offset \notin DOMAIN p.blocks /\ offset \notin p.requested
         THEN offset
         ELSE ScanOffsets_WholeBlocks(p, offset + BLOCK_SIZE)

\* the inner loop of get_next_request: for offset in range(0, expected,
\* BLOCK_SIZE), from `offset` on; -1 when the loop ends without a hit
RECURSIVE ScanOffsets(_, _)
ScanOffsets(p, offset) ==
    IF offset >= p.expected_length THEN -1
    ELSE IF offset \notin DOMAIN p.blocks /\ offset \notin p.requested
         THEN offset
         ELSE ScanOffsets(p, offset + BLOCK_SIZE)

\* ScanPieces as it would be without the `if not complete` test
RECURSIVE ScanPieces_AnyPiece(_, _)
ScanPieces_AnyPiece(pi, i) ==
    IF i >= Cardinality(DOMAIN pi) THEN None
    ELSE IF ScanOffsets(pi[i], 0) >= 0
         THEN LET offset == ScanOffsets(pi[i], 0)
              IN <<i, offset, Min(BLOCK_SIZE, pi[i].expected_length - offset)>>
         ELSE ScanPieces_AnyPiece(pi, i + 1)

\* the outer loop of get_next_request: for i in range(total_pieces), from i on
RECURSIVE ScanPieces(_, _)
ScanPieces(pi, i) ==
    IF i >= Cardinality(DOMAIN pi) THEN None
    ELSE IF ~pi[i].complete /\ ScanOffsets(pi[i], 0) >= 0
         THEN LET offset == ScanOffsets(pi[i], 0)
              IN <<i, offset, Min(BLOCK_SIZE, pi[i].expected_length - offset)>>
         ELSE ScanPieces(pi, i + 1)

SelectRequest(pi) == ScanPieces(pi, 0)

\* requested.add(offset)
Reserve(pi, req) ==
    IF req = None THEN pi
    ELSE [pi EXCEPT ![req[1]].requested = @ \cup {req[2]}]

get_next_request(pi) ==
    LET req == SelectRequest(pi)
    IN [ret |-> req, piece_info |-> Reserve(pi, req)]

\* b"".join(blocks[o] for o in sorted(blocks.keys()))
RECURSIVE JoinBlocks(_)
JoinBlocks(blocks) ==
    IF DOMAIN blocks = {} THEN <<>>
    ELSE LET o == SetMin(DOMAIN blocks)
         IN Cat(blocks[o], JoinBlocks([p \in (DOMAIN blocks) \ {o} |-> blocks[p]]))

\* sum(len(block) for block in blocks.values())
RECURSIVE TotalReceived(_)
TotalReceived(blocks) ==
    IF DOMAIN blocks = {} THEN 0
    ELSE LET o == SetMin(DOMAIN blocks)
         IN ByteLen(blocks[o]) + TotalReceived([p \in (DOMAIN blocks) \ {o} |-> blocks[p]])

\* blocks[offset] = data
PutBlock(blocks, offset, data) ==
    [p \in (DOMAIN blocks) \cup {offset} |-> IF p = offset THEN data ELSE blocks[p]]

\* completed_pieces[piece_index] = piece_data
PutPiece(cp, i, data) ==
    [p \in (DOMAIN cp) \cup {i} |-> IF p = i THEN data ELSE cp[p]]

\* mark_block_received as it would be were a piece taken as complete as soon
\* as enough bytes are held, without comparing the digest
mark_block_received_Unverified(inf, pi, cp, piece_index, offset, data) ==
    LET blocks1    == PutBlock(pi[piece_index].blocks, offset, data)
        piece_data == JoinBlocks(blocks1)
    IN IF TotalReceived(blocks1) >= pi[piece_index].expected_length
       THEN [piece_info |-> [pi EXCEPT ![piece_index].blocks = blocks1,
                                       ![piece_index].complete = TRUE],
             completed_pieces |-> PutPiece(cp, piece_index, piece_data)]
       ELSE [piece_info |-> [pi EXCEPT ![piece_index].blocks = blocks1],
             completed_pieces |-> cp]

\* mark_block_received as it would be were the complete flag reset together
\* with blocks and requested on a failed verification
mark_block_received_Reopen(inf, pi, cp, piece_index, offset, data) ==
    LET blocks1    == PutBlock(pi[piece_index].blocks, offset, data)
        piece_data == JoinBlocks(blocks1)
    IN IF TotalReceived(blocks1) >= pi[piece_index].expected_length
       THEN IF SHA1(piece_data) = inf.pieces[piece_index + 1]
            THEN [piece_info |-> [pi EXCEPT ![piece_index].blocks = blocks1,
                                            ![piece_index].complete = TRUE],
                  completed_pieces |-> PutPiece(cp, piece_index, piece_data)]
            ELSE [piece_info |-> [pi EXCEPT ![piece_index].blocks = <<>>,
                                            ![piece_index].requested = {},
                                            ![piece_index].complete = FALSE],
                  completed_pieces |-> cp]
       ELSE [piece_info |-> [pi EXCEPT ![piece_index].blocks = blocks1],
             completed_pieces |-> cp]

\* mark_block_received as it would be were only blocks reset on a failed
\* verification, requested being left as it is
mark_block_received_KeepRequested(inf, pi, cp, piece_index, offset, data) ==
    LET blocks1    == PutBlock(pi[piece_index].blocks, offset, data)
        piece_data == JoinBlocks(blocks1)
    IN IF TotalReceived(blocks1) >= pi[piece_index].expected_length
       THEN IF SHA1(piece_data) = inf.pieces[piece_index + 1]
            THEN [piece_info |-> [pi EXCEPT ![piece_index].blocks = blocks1,
                                            ![piece_index].complete = TRUE],
                  completed_pieces |-> PutPiece(cp, piece_index, piece_data)]
            ELSE [piece_info |-> [pi EXCEPT ![piece_index].blocks = <<>>],
                  completed_pieces |-> cp]
       ELSE [piece_info |-> [pi EXCEPT ![piece_index].blocks = blocks1],
             completed_pieces |-> cp]

\* mark_block_received as it would be were the blocks kept after a failed
\* verification and only requested emptied
mark_block_received_KeepBlocks(inf, pi, cp, piece_index, offset, data) ==
    LET blocks1    == PutBlock(pi[piece_index].blocks, offset, data)
        piece_data == JoinBlocks(blocks1)
    IN IF TotalReceived(blocks1) >= pi[piece_index].expected_length
       THEN IF SHA1(piece_data) = inf.pieces[piece_index + 1]
            THEN [piece_info |-> [pi EXCEPT ![piece_index].blocks = blocks1,
                                            ![piece_index].complete = TRUE],
                  completed_pieces |-> PutPiece(cp, piece_index, piece_data)]
            ELSE [piece_info |-> [pi EXCEPT ![piece_index].blocks = blocks1,
                                            ![piece_index].requested = {}],
                  completed_pieces |-> cp]
       ELSE [piece_info |-> [pi EXCEPT ![piece_index].blocks = blocks1],
             completed_pieces |-> cp]

\* mark_block_received as it would be were the offset of a deposited block
\* taken out of requested
mark_block_received_Release(inf, pi, cp, piece_index, offset, data) ==
    LET blocks1    == PutBlock(pi[piece_index].blocks, offset, data)
        piece_data == JoinBlocks(blocks1)
        released   == pi[piece_index].requested \ {offset}
    IN IF TotalReceived(blocks1) >= pi[piece_index].expected_length
       THEN IF SHA1(piece_data) = inf.pieces[piece_index + 1]
            THEN [piece_info |-> [pi EXCEPT ![piece_index].blocks = blocks1,
                                            ![piece_index].requested = released,
                                            ![piece_index].complete = TRUE],
                  completed_pieces |-> PutPiece(cp, piece_index, piece_data)]
            ELSE [piece_info |-> [pi EXCEPT ![piece_index].blocks = <<>>,
                                            ![piece_index].requested = {}],
                  completed_pieces |-> cp]
       ELSE [piece_info |-> [pi EXCEPT ![piece_index].blocks = blocks1,
                                       ![piece_index].requested = released],
             completed_pieces |-> cp]

\* the body of mark_block_received for a known piece index
mark_block_received(inf, pi, cp, piece_index, offset, data) ==
    LET blocks1    == PutBlock(pi[piece_index].blocks, offset, data)
        piece_data == JoinBlocks(blocks1)
    IN IF TotalReceived(blocks1) >= pi[piece_index].expected_length
       THEN IF SHA1(piece_data) = inf.pieces[piece_index + 1]
            THEN [piece_info |-> [pi EXCEPT ![piece_index].blocks = blocks1,
                                            ![piece_index].complete = TRUE],
                  completed_pieces |-> PutPiece(cp, piece_index, piece_data)]
            ELSE [piece_info |-> [pi EXCEPT ![piece_index].blocks = <<>>,
                                            ![piece_index].requested = {}],
                  completed_pieces |-> cp]
       ELSE [piece_info |-> [pi EXCEPT ![piece_index].blocks = blocks1],
             completed_pieces |-> cp]

is_complete(pi) == \A i \in DOMAIN pi : pi[i].complete

\* no coordinator operation has been called directly yet
NoCall == [op |-> "none", req |-> None, log |-> "", all |-> FALSE]

\* ------------------------------------------------------------------------
\* Peer wire protocol
\* ------------------------------------------------------------------------
\* the byte string with the given byte values
RECURSIVE BytesOf(_)
BytesOf(vals) == IF vals = <<>> THEN <<>> ELSE Cat(Run(1, vals[1]), BytesOf(Tail(vals)))

\* b"BitTorrent protocol"
PSTR == BytesOf(<<66, 105, 116, 84, 111, 114, 114, 101, 110, 116, 32,
                  112, 114, 111, 116, 111, 99, 111, 108>>)

\* the local info_hash and peer_id (20 bytes each)
LocalInfoHash == Run(20, 200)
LocalPeerId == Run(20, 65)

\* struct.pack("!B", pstrlen) + pstr + reserved + info_hash + peer_id
PackHandshake(pstrlen, pstr, reserved, info_hash, peer_id) ==
    Cat(Run(1, pstrlen), Cat(pstr, Cat(reserved, Cat(info_hash, peer_id))))

\* recv_all(sock, n) when the peer delivers `sent` and then nothing more
recv_all(sent, n) == Slice(sent, 0, n)

\* receive_handshake as it would be without the comparison of the info_hash
receive_handshake_AnyHash(sent, info_hash) ==
    LET handshake == recv_all(sent, 68)
    IN IF ByteLen(handshake) < 68 THEN FALSE
       ELSE LET pstrlen == handshake[1].v
                pstr    == Slice(handshake, 1, 1 + pstrlen)
            IN pstr = PSTR

\* PeerConnection.receive_handshake on the bytes the peer delivers
receive_handshake(sent, info_hash) ==
    LET handshake == recv_all(sent, 68)
    IN IF ByteLen(handshake) < 68 THEN FALSE
       ELSE LET pstrlen == handshake[1].v
                pstr    == Slice(handshake, 1, 1 + pstrlen)
                received_info_hash ==
                    Slice(handshake, 1 + pstrlen + 8, 1 + pstrlen + 8 + 20)
            IN IF pstr # PSTR THEN FALSE
               ELSE IF received_info_hash # info_hash THEN FALSE
               ELSE TRUE

\* a received frame: id -1 stands for the keep-alive ({"id": None}); plen is
\* the payload length; index, begin and block are the payload of a piece
\* message (index alone that of a have message)
Frame(id, plen, index, begin, block) ==
    [id |-> id, plen |-> plen, index |-> index, begin |-> begin, block |-> block]

NoMsg == Frame(-1, 0, 0, 0, <<>>)
KeepAlive == Frame(-1, 0, 0, 0, <<>>)
Choke == Frame(0, 0, 0, 0, <<>>)
Unchoke == Frame(1, 0, 0, 0, <<>>)
Have(i) == Frame(4, 4, i, 0, <<>>)
PieceMsg(i, begin, block) == Frame(7, 8 + ByteLen(block), i, begin, block)

\* ------------------------------------------------------------------------
\* PeerConnection
\* ------------------------------------------------------------------------
\* PeerConnection.__init__ followed by start()
NewPeerConnection(ep) ==
    [ep |-> ep, pc |-> "connect", attempt |-> 0, sock |-> "None",
     choked |-> TRUE, running |-> TRUE, consecutive_failures |-> 0,
     req |-> None]

Sessions == 1..Len(peer_connections)

\* CanAcquire as it would be without the lock
CanAcquire_Unlocked(l) == TRUE

\* `with self.lock:` can be entered
CanAcquire(l) == l = 0

\* the socket after the `if self.sock: self.sock.close()` that ends run()
Closed(sock) == IF sock = "None" THEN "None" ELSE "closed"

\* the session leaves the steady-state loop (break, or the loop test fails)
Leave(c) == [c EXCEPT !.pc = "done", !.sock = Closed(c.sock)]

\* LoopHead as it would be were running not tested
LoopHead_IgnoreRunning(c) ==
    IF c.sock # "None" THEN [c EXCEPT !.pc = "recv"] ELSE Leave(c)

\* `while self.running:` with its `if self.sock is None: break`: the session
\* that comes to the head of the steady-state loop either blocks in
\* recv_message or leaves the loop
LoopHead(c) ==
    IF c.running /\ c.sock # "None" THEN [c EXCEPT !.pc = "recv"] ELSE Leave(c)

\* AfterDispatch as it would be without the `if not self.choked:` test
AfterDispatch_Unconditional(c) == [c EXCEPT !.pc = "gnr"]

\* AfterDispatch as it would be with the test inverted
AfterDispatch_Inverted(c) == IF ~c.choked THEN LoopHead(c) ELSE [c EXCEPT !.pc = "gnr"]

\* `if not self.choked:` after the dispatch: on to get_next_request, or
\* back to the head of the loop
AfterDispatch(c) == IF c.choked THEN LoopHead(c) ELSE [c EXCEPT !.pc = "gnr"]

\* One pass of the connect loop: the TCP connect succeeds or not, and the
\* peer delivers the bytes `sent` in answer to the handshake.
ConnectAttempt(s, tcp, sent) ==
    LET c == peer_connections[s]
    IN /\ c.pc = "connect"
       /\ c.attempt < max_retries /\ c.running
       /\ IF tcp /\ receive_handshake(sent, LocalInfoHash)
          THEN \* break; send_interested(); on to the steady-state loop
               peer_connections' = [peer_connections EXCEPT
                   ![s] = LoopHead([c EXCEPT !.sock = "open"])]
          ELSE \* except: attempt += 1, close and forget the socket
               peer_connections' = [peer_connections EXCEPT
                   ![s].attempt = @ + 1, ![s].sock = "None"]
       /\ UNCHANGED <<info, pmvars, callvars, issued, sup, output>>

\* The connect loop ends without a socket: run() returns.
ConnectGiveUp(s) ==
    LET c == peer_connections[s]
    IN /\ c.pc = "connect"
       /\ ~(c.attempt < max_retries /\ c.running)
       /\ c.attempt >= max_retries \/ c.sock = "None"
       /\ peer_connections' = [peer_connections EXCEPT ![s].pc = "done"]
       /\ UNCHANGED <<info, pmvars, callvars, issued, peerq, socklog, sup, output>>

\* RecvFail as it would be were a failed read followed by the request step
\* of the iteration instead of `continue`
RecvFail_ThenRequest(s) ==
    LET c == peer_connections[s]
        c1 == [c EXCEPT !.consecutive_failures = @ + 1]
    IN /\ c.pc = "recv"
       /\ peer_connections' = [peer_connections EXCEPT
              ![s] = IF c1.consecutive_failures >= max_failures
                     THEN Leave(c1)
                     ELSE AfterDispatch(c1)]
       /\ UNCHANGED <<info, pmvars, callvars, issued, sup, output>>

\* recv_message returns None: error, timeout or short read.
RecvFail(s) ==
    LET c == peer_connections[s]
        c1 == [c EXCEPT !.consecutive_failures = @ + 1]
    IN /\ c.pc = "recv"
       /\ peer_connections' = [peer_connections EXCEPT
              ![s] = IF c1.consecutive_failures >= max_failures
                     THEN Leave(c1)        \* break
                     ELSE LoopHead(c1)]    \* sleep(0.5); continue
       /\ UNCHANGED <<info, pmvars, callvars, issued, sup, output>>

\* Dispatch as it would be were consecutive_failures left as it is by a
\* successful read
Dispatch_KeepCount(c, m) ==
    IF m.id = -1 THEN LoopHead(c)
    ELSE IF m.id = 0 THEN AfterDispatch([c EXCEPT !.choked = TRUE])
    ELSE IF m.id = 1 THEN AfterDispatch([c EXCEPT !.choked = FALSE])
    ELSE IF m.id = 4 /\ m.plen # 4 THEN Leave(c)
    ELSE IF m.id = 7 /\ m.plen < 8 THEN LoopHead(c)
    ELSE AfterDispatch(c)

\* Dispatch as it would be were the keep-alive taken through the rest of the
\* iteration like any other frame
Dispatch_KeepAliveAdvances(c, m) ==
    LET c0 == [c EXCEPT !.consecutive_failures = 0]
    IN IF m.id = -1 THEN AfterDispatch(c0)
       ELSE IF m.id = 0 THEN AfterDispatch([c0 EXCEPT !.choked = TRUE])
       ELSE IF m.id = 1 THEN AfterDispatch([c0 EXCEPT !.choked = FALSE])
       ELSE IF m.id = 4 /\ m.plen # 4 THEN Leave(c0)
       ELSE IF m.id = 7 /\ m.plen < 8 THEN LoopHead(c0)
       ELSE AfterDispatch(c0)

\* the session after the dispatch of a received frame m other than a piece
\* message that reaches the coordinator
Dispatch(c, m) ==
    LET c0 == [c EXCEPT !.consecutive_failures = 0]
    IN IF m.id = -1 THEN LoopHead(c0)                        \* keep-alive: continue
       ELSE IF m.id = 0 THEN AfterDispatch([c0 EXCEPT !.choked = TRUE])
       ELSE IF m.id = 1 THEN AfterDispatch([c0 EXCEPT !.choked = FALSE])
       ELSE IF m.id = 4 /\ m.plen # 4 THEN Leave(c0)         \* struct.error: break
       ELSE IF m.id = 7 /\ m.plen < 8 THEN LoopHead(c0)      \* continue
       ELSE AfterDispatch(c0)

\* a piece message with a full header: it is handed to the coordinator
IsDeposit(m) == m.id = 7 /\ m.plen >= 8

\* recv_message returns the frame m, which is not handed to the coordinator.
Recv(s, m) ==
    LET c == peer_connections[s]
    IN /\ c.pc = "recv"
       /\ ~IsDeposit(m)
       /\ peer_connections' = [peer_connections EXCEPT ![s] = Dispatch(c, m)]
       /\ UNCHANGED <<info, pmvars, callvars, issued, sup, output>>

\* the issued pairs that survive a deposit into piece i: none of piece i
\* when the deposit emptied the piece's requested set
Surviving(pairs, i, emptied) ==
    IF emptied THEN SelectSeq(pairs, LAMBDA q : q[1] # i) ELSE pairs

\* RecvPiece as it would be were the lock not released when
\* mark_block_received raises for an unknown piece index
RecvPiece_LockLeak(s, m) ==
    LET c  == peer_connections[s]
        c0 == [c EXCEPT !.consecutive_failures = 0]
    IN /\ c.pc = "recv"
       /\ IsDeposit(m)
       /\ CanAcquire(lock)
       /\ IF m.index \in DOMAIN piece_info
          THEN \E r \in {mark_block_received(info, piece_info, completed_pieces,
                                                m.index, m.begin, m.block)} :
               LET emptied == /\ r.piece_info[m.index].blocks = <<>>
                              /\ r.piece_info[m.index].requested = {}
               IN /\ piece_info' = r.piece_info
                  /\ completed_pieces' = r.completed_pieces
                  /\ issued' = [t \in DOMAIN issued |->
                                   Surviving(issued[t], m.index, emptied)]
                  /\ peer_connections' = [peer_connections EXCEPT
                         ![s] = AfterDispatch(c0)]
                  /\ lock' = lock
          ELSE /\ peer_connections' = [peer_connections EXCEPT ![s] = Leave(c0)]
               /\ lock' = s
               /\ UNCHANGED <<piece_info, completed_pieces, issued>>
       /\ UNCHANGED <<info, callvars, sup, output>>

\* recv_message returns the piece message m and the session calls
\* piece_manager.mark_block_received(piece_index, offset, block_data),
\* which runs once the lock is free.
RecvPiece(s, m) ==
    LET c  == peer_connections[s]
        c0 == [c EXCEPT !.consecutive_failures = 0]
    IN /\ c.pc = "recv"
       /\ IsDeposit(m)
       /\ CanAcquire(lock)
       /\ IF m.index \in DOMAIN piece_info
          THEN \E r \in {mark_block_received(info, piece_info, completed_pieces,
                                                m.index, m.begin, m.block)} :
               LET emptied == /\ r.piece_info[m.index].blocks = <<>>
                              /\ r.piece_info[m.index].requested = {}
               IN /\ piece_info' = r.piece_info
                  /\ completed_pieces' = r.completed_pieces
                  /\ issued' = [t \in DOMAIN issued |->
                                   Surviving(issued[t], m.index, emptied)]
                  /\ peer_connections' = [peer_connections EXCEPT
                         ![s] = AfterDispatch(c0)]
          ELSE \* KeyError: except ... break
               /\ peer_connections' = [peer_connections EXCEPT ![s] = Leave(c0)]
               /\ UNCHANGED <<piece_info, completed_pieces, issued>>
       /\ UNCHANGED <<info, lock, callvars, sup, output>>

\* get_next_request: enter `with self.lock:` and scan for the first free block
AcquireAndScan(s) ==
    LET c == peer_connections[s]
    IN /\ c.pc = "gnr"
       /\ CanAcquire(lock)
       /\ lock' = s
       /\ peer_connections' = [peer_connections EXCEPT
              ![s].req = SelectRequest(piece_info), ![s].pc = "gnr_add"]
       /\ UNCHANGED <<info, piece_info, completed_pieces, callvars, issued,
                      peerq, socklog, sup, output>>

\* ReserveAndRequest as it would be were the lock kept at the end of
\* get_next_request
ReserveAndRequest_KeepLock(s) ==
    LET c == peer_connections[s]
    IN /\ c.pc = "gnr_add"
       /\ piece_info' = Reserve(piece_info, c.req)
       /\ lock' = lock
       /\ issued' = IF c.req = None THEN issued
                    ELSE [issued EXCEPT ![s] = Append(@, <<c.req[1], c.req[2]>>)]
       /\ peer_connections' = [peer_connections EXCEPT
              ![s] = LoopHead([c EXCEPT !.req = None])]
       /\ UNCHANGED <<info, completed_pieces, callvars, sup, output>>

\* get_next_request: requested.add(offset), leave the lock and return; then
\* send_request(piece_index, offset, req_length) unless None came back, and
\* back to the head of the loop
ReserveAndRequest(s) ==
    LET c == peer_connections[s]
    IN /\ c.pc = "gnr_add"
       /\ piece_info' = Reserve(piece_info, c.req)
       /\ lock' = 0
       /\ issued' = IF c.req = None THEN issued
                    ELSE [issued EXCEPT ![s] = Append(@, <<c.req[1], c.req[2]>>)]
       /\ peer_connections' = [peer_connections EXCEPT
              ![s] = LoopHead([c EXCEPT !.req = None])]
       /\ UNCHANGED <<info, completed_pieces, callvars, sup, output>>

\* ------------------------------------------------------------------------
\* TorrentClient
\* ------------------------------------------------------------------------
Endpoints == 1..NumEndpoints

\* the peer lists contact_tracker can return (empty on any tracker error)
RECURSIVE PeerLists(_)
PeerLists(n) ==
    IF n = 0 THEN {<<>>}
    ELSE PeerLists(n - 1) \cup
         { Append(l, e) : l \in { x \in PeerLists(n - 1) : Len(x) = n - 1 },
                          e \in Endpoints }

Responses == PeerLists(MaxResp)

\* what a tracker may answer to an announce: the request raises or comes
\* back with a status code; the decoded body carries a failure reason or
\* not, and a peer list
TrackerReplies ==
    { [error |-> e, status |-> c, failure |-> f, peers |-> p] :
        e \in BOOLEAN, c \in {200, 404}, f \in BOOLEAN, p \in Responses }

\* contact_tracker as it would be without the test of the status code
contact_tracker_AnyStatus(reply) ==
    IF reply.error THEN <<>>
    ELSE IF reply.failure THEN <<>>
    ELSE reply.peers

\* TrackerClient.contact_tracker: [] when the request raises, when the
\* status code is not 200 and when the body has a failure reason; else the
\* peers of the body
contact_tracker(reply) ==
    IF reply.error THEN <<>>
    ELSE IF reply.status # 200 THEN <<>>
    ELSE IF reply.failure THEN <<>>
    ELSE reply.peers

\* the initial admission loop: every listed endpoint gets a session
RECURSIVE SpawnAll(_, _)
SpawnAll(st, peers) ==
    IF peers = <<>> THEN st
    ELSE SpawnAll([existing_peers   |-> st.existing_peers \cup {peers[1]},
                   peer_connections |-> Append(st.peer_connections,
                                               NewPeerConnection(peers[1]))],
                  Tail(peers))

\* SpawnNew as it would be without the test on existing_peers
SpawnNew_NoCheck(st, new_peers) == SpawnAll(st, new_peers)

\* SpawnNew as it would be were the admitted endpoints not added to
\* existing_peers
RECURSIVE SpawnNew_NoRecord(_, _)
SpawnNew_NoRecord(st, new_peers) ==
    IF new_peers = <<>> THEN st
    ELSE IF new_peers[1] \notin st.existing_peers
         THEN SpawnNew_NoRecord([existing_peers   |-> st.existing_peers,
                                 peer_connections |-> Append(st.peer_connections,
                                                             NewPeerConnection(new_peers[1]))],
                                Tail(new_peers))
         ELSE SpawnNew_NoRecord(st, Tail(new_peers))

\* the admission loop of a re-announce: only endpoints not in existing_peers
RECURSIVE SpawnNew(_, _)
SpawnNew(st, new_peers) ==
    IF new_peers = <<>> THEN st
    ELSE IF new_peers[1] \notin st.existing_peers
         THEN SpawnNew([existing_peers   |-> st.existing_peers \cup {new_peers[1]},
                        peer_connections |-> Append(st.peer_connections,
                                                    NewPeerConnection(new_peers[1]))],
                       Tail(new_peers))
         ELSE SpawnNew(st, Tail(new_peers))

\* issued and peerq extended to the sessions of the longer session list
Extend(f, conns) == [t \in 1..Len(conns) |-> IF t \in DOMAIN f THEN f[t] ELSE <<>>]

\* the socket log of a session that has not run yet
NoLog ==
    [connects |-> 0, accepted |-> FALSE, sent |-> <<>>, reads |-> <<>>, ops |-> <<>>,
     idle |-> 0, checked |-> FALSE]

\* socklog extended to the sessions of the longer session list
ExtendLog(f, conns) == [t \in 1..Len(conns) |-> IF t \in DOMAIN f THEN f[t] ELSE NoLog]

\* WrittenFrom as it would be were the pieces written from the last index
\* down to the first
RECURSIVE WrittenFrom_Descending(_, _, _)
WrittenFrom_Descending(cp, i, n) ==
    IF i >= n \/ i \notin DOMAIN cp THEN <<>>
    ELSE Cat(WrittenFrom_Descending(cp, i + 1, n), cp[i])

\* the file left by assemble_single_file: the pieces written before the
\* first index missing from completed_pieces
RECURSIVE WrittenFrom(_, _, _)
WrittenFrom(cp, i, n) ==
    IF i >= n \/ i \notin DOMAIN cp THEN <<>>
    ELSE Cat(cp[i], WrittenFrom(cp, i + 1, n))

NoFile == [exists |-> FALSE, data |-> <<>>]

assemble_single_file(cp, n) == [exists |-> TRUE, data |-> WrittenFrom(cp, 0, n)]

\* completed_pieces.get(i) is None for some i in range(total_pieces)
Missing(cp, n) == \E i \in 0..(n - 1) : i \notin DOMAIN cp

\* WriteFiles as it would be were offset left where it is after a file
RECURSIVE WriteFiles_FromStart(_, _, _)
WriteFiles_FromStart(full_data, files, offset) ==
    IF files = <<>> THEN <<>>
    ELSE <<[exists |-> TRUE,
            data   |-> Slice(full_data, offset, offset + files[1].length)]>>
         \o WriteFiles_FromStart(full_data, Tail(files), offset)

\* the loop over the file entries: each file is opened and receives
\* full_data[offset:offset+length], and offset moves on by length
RECURSIVE WriteFiles(_, _, _)
WriteFiles(full_data, files, offset) ==
    IF files = <<>> THEN <<>>
    ELSE <<[exists |-> TRUE,
            data   |-> Slice(full_data, offset, offset + files[1].length)]>>
         \o WriteFiles(full_data, Tail(files), offset + files[1].length)

\* what assemble_multi_file leaves: the directory instead of the single
\* file, and in it the file of every entry (none is opened when a piece is
\* missing: the exception is raised while full_data is put together)
assemble_multi_file(cp, n, files) ==
    [exists |-> FALSE,
     data   |-> <<>>,
     files  |-> IF Missing(cp, n)
                THEN [k \in 1..Len(files) |-> NoFile]
                ELSE WriteFiles(WrittenFrom(cp, 0, n), files, 0)]

\* FinalOutput as it would be were the files assembled whatever is_complete()
\* says
FinalOutput_Always(inf, pi, cp, out) ==
    IF inf.files # <<>>
    THEN assemble_multi_file(cp, total_pieces(inf), inf.files)
    ELSE assemble_single_file(cp, total_pieces(inf))

\* the end of start(): `if self.piece_manager.is_complete():` assemble the
\* files, multi-file when the info dictionary has "files"; else only log
FinalOutput(inf, pi, cp, out) ==
    IF is_complete(pi)
    THEN IF inf.files # <<>>
         THEN assemble_multi_file(cp, total_pieces(inf), inf.files)
         ELSE assemble_single_file(cp, total_pieces(inf))
    ELSE out

\* sum(1 for i in piece_info if piece_info[i]["complete"])
CompletedCount(pi) == Cardinality({ i \in DOMAIN pi : pi[i].complete })

\* start(): load_torrent, the first announce and the initial admission loop
SupStart(peers) ==
    /\ sup.pc = "start"
    /\ LET st == SpawnAll([existing_peers |-> {}, peer_connections |-> <<>>], peers)
       IN /\ peer_connections' = st.peer_connections
          /\ issued' = Extend(issued, st.peer_connections)
          /\ peerq' = Extend(peerq, st.peer_connections)
          /\ socklog' = ExtendLog(socklog, st.peer_connections)
          /\ sup' = [sup EXCEPT !.pc = "loop", !.existing_peers = st.existing_peers]
    /\ UNCHANGED <<info, pmvars, callvars, output>>

\* `while not self.piece_manager.is_complete():`
SupLoopHead ==
    /\ sup.pc = "loop"
    /\ CanAcquire(lock)
    /\ sup' = [sup EXCEPT !.pc = IF is_complete(piece_info) THEN "finally" ELSE "tick"]
    /\ UNCHANGED <<info, pmvars, callvars, sessvars, output>>

\* ReannounceDue as it would be with a strict comparison
ReannounceDue_Late(stagnant_time) == stagnant_time > 30

\* `if stagnant_time >= 30:`
ReannounceDue(stagnant_time) == stagnant_time >= 30

\* the body of the progress loop, with new_peers the answer of the tracker
\* should this tick re-announce (sup.seen_completed, sup.reannounced and
\* sup.admitted keep what this tick counted, whether it contacted the tracker
\* and how many sessions it started)
SupTick(new_peers) ==
    /\ sup.pc = "tick"
    /\ LET completed == CompletedCount(piece_info)
           last1     == IF completed > sup.last_completed
                        THEN completed ELSE sup.last_completed
           stagnant1 == IF completed > sup.last_completed
                        THEN 0 ELSE sup.stagnant_time + 5
       IN IF ReannounceDue(stagnant1)
          THEN LET st == SpawnNew([existing_peers   |-> sup.existing_peers,
                                   peer_connections |-> peer_connections], new_peers)
               IN /\ peer_connections' = st.peer_connections
                  /\ issued' = Extend(issued, st.peer_connections)
                  /\ peerq' = Extend(peerq, st.peer_connections)
                  /\ socklog' = ExtendLog(socklog, st.peer_connections)
                  /\ sup' = [sup EXCEPT !.pc = "loop",
                                        !.existing_peers = st.existing_peers,
                                        !.last_completed = last1,
                                        !.stagnant_time = 0,
                                        !.seen_completed = completed,
                                        !.reannounced = TRUE,
                                        !.admitted = Len(st.peer_connections)
                                                     - Len(peer_connections)]
          ELSE /\ sup' = [sup EXCEPT !.pc = "loop",
                                     !.last_completed = last1,
                                     !.stagnant_time = stagnant1,
                                     !.seen_completed = completed,
                                     !.reannounced = FALSE,
                                     !.admitted = 0]
               /\ UNCHANGED sessvars
    /\ UNCHANGED <<info, pmvars, callvars, output>>

\* KeyboardInterrupt inside the try
SupInterrupt ==
    /\ sup.pc \in {"loop", "tick"}
    /\ sup' = [sup EXCEPT !.pc = "finally"]
    /\ UNCHANGED <<info, pmvars, callvars, sessvars, output>>

\* finally: `for pc in self.peer_connections: pc.running = False`
SupStop ==
    /\ sup.pc = "finally"
    /\ peer_connections' = [t \in DOMAIN peer_connections |->
                               [peer_connections[t] EXCEPT !.running = FALSE]]
    /\ sup' = [sup EXCEPT !.pc = "final"]
    /\ UNCHANGED <<info, pmvars, callvars, issued, peerq, socklog, output>>

\* finally: assemble the file if is_complete(), else log the failure
SupFinish ==
    /\ sup.pc = "final"
    /\ CanAcquire(lock)
    /\ output' = FinalOutput(info, piece_info, completed_pieces, output)
    /\ sup' = [sup EXCEPT !.pc = "done"]
    /\ UNCHANGED <<info, pmvars, callvars, sessvars>>

\* ------------------------------------------------------------------------
\* The environment: what peers send
\* ------------------------------------------------------------------------
\* the block of the content at (piece i, offset begin), of the length
\* get_next_request asks for
TrueBlock(inf, i, begin) ==
    Slice(TruePiece(inf.piece_length, total_length(inf), i), begin, begin + BLOCK_SIZE)

\* the same number of bytes, none of them right
CorruptBlock(inf, i, begin) == Run(ByteLen(TrueBlock(inf, i, begin)), 0)

\* range(0, expected, BLOCK_SIZE) as a set
BlockOffsets(expected) ==
    { k * BLOCK_SIZE : k \in { j \in 0..(expected \div BLOCK_SIZE) : j * BLOCK_SIZE < expected } }

\* the handshakes a peer may answer with
GoodHandshake == PackHandshake(19, PSTR, Run(8, 0), LocalInfoHash, Run(20, 66))

PeerHandshakes ==
    { GoodHandshake,
      PackHandshake(19, PSTR, Run(8, 0), Run(20, 201), Run(20, 66)),
      Slice(GoodHandshake, 0, 67) }

\* the frames a peer may send to a session of the whole system
SystemFrames(inf) ==
    { KeepAlive, Choke, Unchoke, Have(0), Frame(4, 3, 0, 0, <<>>),
      Frame(7, 4, 0, 0, <<>>),
      PieceMsg(total_pieces(inf), 0, Run(4, 0)) }
    \cup { PieceMsg(i, b, TrueBlock(inf, i, b)) :
             i \in PieceIds(inf), b \in BlockOffsets(inf.piece_length) }
    \cup { PieceMsg(i, 0, CorruptBlock(inf, i, 0)) : i \in PieceIds(inf) }

\* ------------------------------------------------------------------------
\* The whole system, with arbitrary peers
\* ------------------------------------------------------------------------
SystemTorrents == { MakeInfo(16384, 4, <<>>) }

InitWith(torrents) ==
    /\ info \in torrents
    /\ piece_info = PieceManagerInit(info)
    /\ completed_pieces = <<>>
    /\ lock = 0
    /\ ret = NoCall
    /\ peer_connections = <<>>
    /\ issued = <<>>
    /\ peerq = <<>>
    /\ socklog = <<>>
    /\ sup = [pc |-> "start", existing_peers |-> {}, last_completed |-> 0,
              stagnant_time |-> 0, seen_completed |-> 0, reannounced |-> FALSE,
              admitted |-> 0]
    /\ output = NoFile

Init == InitWith(SystemTorrents)

\* the peer list of the first announce
SessionPeers == <<1, 2>>

Announce == SupStart(SessionPeers)

Connect ==
    \E s \in Sessions, tcp \in BOOLEAN, sent \in PeerHandshakes :
        ConnectAttempt(s, tcp, sent) /\ UNCHANGED <<peerq, socklog>>

GiveUp == \E s \in Sessions : ConnectGiveUp(s)

ReadFails == \E s \in Sessions : RecvFail(s) /\ UNCHANGED <<peerq, socklog>>

Read == \E s \in Sessions, m \in SystemFrames(info) : Recv(s, m) /\ UNCHANGED <<peerq, socklog>>

ReadPiece ==
    \E s \in Sessions, m \in SystemFrames(info) : RecvPiece(s, m) /\ UNCHANGED <<peerq, socklog>>

Select == \E s \in Sessions : AcquireAndScan(s)

Request == \E s \in Sessions : ReserveAndRequest(s) /\ UNCHANGED <<peerq, socklog>>

Next ==
    \/ Announce
    \/ SupInterrupt
    \/ SupStop
    \/ SupFinish
    \/ Connect
    \/ GiveUp
    \/ ReadFails
    \/ Read
    \/ ReadPiece
    \/ Select
    \/ Request

Spec == Init /\ [][Next]_vars

\* ------------------------------------------------------------------------
\* The coordinator alone, called directly
\* ------------------------------------------------------------------------
\* the offsets deposits are made at: every block offset and a misaligned one
DepositOffsets(inf) == BlockOffsets(inf.piece_length) \cup {BLOCK_SIZE \div 2}

\* the payloads deposited at (piece i, offset begin): the right bytes, wrong
\* bytes of the same length, the whole piece, and four wrong bytes
DepositData(inf, i, begin) ==
    { TrueBlock(inf, i, begin), CorruptBlock(inf, i, begin),
      TruePiece(inf.piece_length, total_length(inf), i), Run(4, 0) }

InitPM == InitWith(Torrents)

\* get_next_request(); ret records the returned value
CallGetNextRequest ==
    \E r \in {get_next_request(piece_info)} :
       /\ CanAcquire(lock)
       /\ piece_info' = r.piece_info
       /\ ret' = [op |-> "get_next_request", req |-> r.ret, log |-> "", all |-> FALSE]
       /\ UNCHANGED <<info, completed_pieces, lock, sessvars, sup, output>>

\* what mark_block_received logs: the verification succeeded, failed, or
\* was not reached
VerificationLog(before, after, i) ==
    IF after[i].blocks = <<>> THEN "failed"
    ELSE IF TotalReceived(after[i].blocks) >= before[i].expected_length THEN "verified"
    ELSE ""

\* mark_block_received(i, begin, data); ret records the piece and the log line
CallMarkBlockReceived ==
    \E i \in PieceIds(info), begin \in DepositOffsets(info) :
    \E data \in DepositData(info, i, begin) :
    \E r \in {mark_block_received(info, piece_info, completed_pieces, i, begin, data)} :
       /\ CanAcquire(lock)
       /\ piece_info' = r.piece_info
       /\ completed_pieces' = r.completed_pieces
       /\ ret' = [op |-> "mark_block_received", req |-> <<i>>,
                  log |-> VerificationLog(piece_info, r.piece_info, i), all |-> FALSE]
       /\ UNCHANGED <<info, lock, sessvars, sup, output>>

\* is_complete(); ret records the returned value
CallIsComplete ==
    /\ CanAcquire(lock)
    /\ ret' = [op |-> "is_complete", req |-> None, log |-> "",
               all |-> is_complete(piece_info)]
    /\ UNCHANGED <<info, pmvars, sessvars, sup, output>>

NextPM ==
    \/ CallGetNextRequest
    \/ CallMarkBlockReceived
    \/ CallIsComplete

SpecPM == InitPM /\ [][NextPM]_vars

\* ------------------------------------------------------------------------
\* Properties of the coordinator (checked under SpecPM)
\* ------------------------------------------------------------------------
\* the blocks get_next_request may hand out: (piece, offset) with the piece
\* incomplete and the offset neither held nor requested
Candidates(pi) ==
    UNION { { <<i, o>> : o \in { x \in BlockOffsets(pi[i].expected_length) :
                                   /\ ~pi[i].complete
                                   /\ x \notin DOMAIN pi[i].blocks
                                   /\ x \notin pi[i].requested } } :
            i \in DOMAIN pi }

LexLeq(a, b) == a[1] < b[1] \/ (a[1] = b[1] /\ a[2] <= b[2])

\* C3: in every reachable state, a piece marked complete has non-empty data
\* in the completion ledger whose SHA-1 is the piece's digest in the
\* metainfo, whatever was deposited for the piece after its completion.
C3_CompleteImpliesVerifiedData ==
    \A i \in DOMAIN piece_info :
        piece_info[i].complete =>
            /\ i \in DOMAIN completed_pieces
            /\ completed_pieces[i] # <<>>
            /\ SHA1(completed_pieces[i]) = info.pieces[i + 1]

\* a complete piece whose blocks were emptied again by a later deposit that
\* failed verification
C3_Witness ==
    \E i \in DOMAIN piece_info :
        /\ piece_info[i].complete
        /\ piece_info[i].blocks = <<>>
        /\ i \in DOMAIN completed_pieces

\* C4: complete is monotonic: no step of the coordinator takes a piece's
\* complete flag from true back to false.
C4_CompleteMonotonic ==
    [][\A i \in DOMAIN piece_info :
          piece_info[i].complete => piece_info'[i].complete]_vars

\* a deposit addressed to a complete piece has just failed verification
C4_Witness ==
    /\ ret.op = "mark_block_received"
    /\ ret.log = "failed"
    /\ piece_info[ret.req[1]].complete

\* C6: a request returned by get_next_request is the lexicographically
\* smallest (piece, offset) among the blocks of incomplete pieces that are
\* neither held nor requested, with length min(BLOCK_SIZE, expected - offset).
C6_LowestIndexLowestOffset ==
    [][(ret'.op = "get_next_request" /\ ret'.req # None) =>
          /\ <<ret'.req[1], ret'.req[2]>> \in Candidates(piece_info)
          /\ \A c \in Candidates(piece_info) :
                 LexLeq(<<ret'.req[1], ret'.req[2]>>, c)
          /\ ~piece_info[ret'.req[1]].complete
          /\ ret'.req[3] = Min(BLOCK_SIZE,
                 piece_info[ret'.req[1]].expected_length - ret'.req[2])]_vars

\* get_next_request passed over piece 0, incomplete but with every block
\* held or requested, and returned the short block of piece 1
C6_Witness ==
    /\ ret.op = "get_next_request"
    /\ ret.req = <<1, 0, 4>>
    /\ ~piece_info[0].complete

\* every block of every incomplete piece is held or requested
NothingFree(pi) ==
    \A i \in DOMAIN pi :
        \/ pi[i].complete
        \/ \A o \in BlockOffsets(pi[i].expected_length) :
               o \in DOMAIN pi[i].blocks \/ o \in pi[i].requested

\* C7: get_next_request returns None exactly when every piece is complete
\* or every block of every incomplete piece is held or requested, and a call
\* that returns None leaves the coordinator as it was.
C7_NoneIffNothingFree ==
    [][ret'.op = "get_next_request" =>
          /\ (ret'.req = None) <=> NothingFree(piece_info)
          /\ ret'.req = None =>
                 /\ piece_info' = piece_info
                 /\ completed_pieces' = completed_pieces
                 /\ lock' = lock]_vars

\* None came back although some piece is incomplete
C7_Witness ==
    /\ ret.op = "get_next_request"
    /\ ret.req = None
    /\ ~is_complete(piece_info)

\* C8: a deposit that brings the bytes held for an incomplete piece to at
\* least expected_length with a wrong SHA-1 empties the piece's blocks and
\* requested, leaves it incomplete and without ledger entry, and the scan of
\* get_next_request offers the piece again from offset 0.
C8_FailedVerificationResets ==
    \A i \in PieceIds(info), begin \in DepositOffsets(info) :
    \A data \in DepositData(info, i, begin) :
        LET blocks1 == PutBlock(piece_info[i].blocks, begin, data)
            r == mark_block_received(info, piece_info, completed_pieces, i, begin, data)
            q == SelectRequest(r.piece_info)
        IN (/\ ~piece_info[i].complete
            /\ TotalReceived(blocks1) >= piece_info[i].expected_length
            /\ SHA1(JoinBlocks(blocks1)) # info.pieces[i + 1])
           => /\ r.piece_info[i].blocks = <<>>
              /\ r.piece_info[i].requested = {}
              /\ ~r.piece_info[i].complete
              /\ i \notin DOMAIN r.completed_pieces
              /\ ScanOffsets(r.piece_info[i], 0) = 0
              /\ q # None /\ q[1] <= i /\ (q[1] = i => q[2] = 0)

\* a deposit has just failed verification on an incomplete piece of which an
\* offset had been requested, and the piece is on offer again from offset 0
C8_Witness ==
    /\ ret.op = "mark_block_received"
    /\ ret.log = "failed"
    /\ ~piece_info[ret.req[1]].complete
    /\ piece_info[ret.req[1]].requested = {}
    /\ SelectRequest(piece_info) = <<0, 0, BLOCK_SIZE>>
    /\ ret.req[1] = 0

\* C24: in every state of the coordinator, depositing the same (piece
\* index, offset, bytes) twice in a row leaves piece_info and
\* completed_pieces as depositing it once does.
C24_DuplicateDepositIdempotent ==
    \A i \in PieceIds(info), begin \in DepositOffsets(info) :
        \A data \in DepositData(info, i, begin) :
            LET once  == mark_block_received(info, piece_info, completed_pieces,
                                             i, begin, data)
                twice == mark_block_received(info, once.piece_info, once.completed_pieces,
                                             i, begin, data)
            IN twice = once

\* C16: in every state of the coordinator, whatever was deposited, the bytes
\* held in the blocks of a piece add up to at most its expected_length.
C16_BlocksWithinExpectedLength ==
    \A i \in DOMAIN piece_info :
        TotalReceived(piece_info[i].blocks) <= piece_info[i].expected_length

\* a piece holds a block at offset 0 and a short block at a misaligned offset
\* inside the first, fewer bytes in all than it expects; another piece has
\* been emptied by a deposit
C16_Witness ==
    \E i \in DOMAIN piece_info :
        /\ DOMAIN piece_info[i].blocks = {0, BLOCK_SIZE \div 2}
        /\ TotalReceived(piece_info[i].blocks) = BLOCK_SIZE + 4
        /\ ret.op = "mark_block_received"
        /\ ret.req = <<i>>

\* ------------------------------------------------------------------------
\* Properties of the sessions (checked under Spec)
\* ------------------------------------------------------------------------
\* the session's thread has ended
Terminated(s) == peer_connections[s].pc = "done"

\* C1: when a session has terminated, the offsets it obtained from
\* get_next_request that were not deposited are no longer in requested.
C1_ReleasedOnTermination ==
    \A s \in Sessions :
        Terminated(s) =>
            \A k \in 1..Len(issued[s]) :
                LET i == issued[s][k][1]
                    o == issued[s][k][2]
                IN o \notin DOMAIN piece_info[i].blocks => o \notin piece_info[i].requested

\* C5: no (piece, offset) is returned by get_next_request twice, to the same
\* or to two sessions, unless the piece's requested set was emptied by a
\* failed verification in between.
C5_NoDoubleIssue ==
    \A s \in Sessions, t \in Sessions :
        \A j \in 1..Len(issued[s]), k \in 1..Len(issued[t]) :
            (s # t \/ j # k) => issued[s][j] # issued[t][k]

\* one session is between its scan and its requested.add, holding the lock
\* with a block selected, while another session waits to enter
\* get_next_request
C5_Witness ==
    \E s \in Sessions, t \in Sessions :
        /\ s # t
        /\ lock = s
        /\ peer_connections[s].pc = "gnr_add"
        /\ peer_connections[s].req # None
        /\ peer_connections[t].pc = "gnr"

\* C10: a session is in get_next_request, or about to send the request it
\* got from it, only while its choked flag is false; the flag is true until
\* the steady-state loop has dispatched an unchoke.
C10_RequestsOnlyWhenUnchoked ==
    \A s \in Sessions :
        /\ peer_connections[s].pc \in {"gnr", "gnr_add"} => ~peer_connections[s].choked
        /\ peer_connections[s].pc = "connect" => peer_connections[s].choked
        /\ peer_connections[s].choked /\ peer_connections[s].pc = "recv"
               => peer_connections[s].req = None

\* a session that reserved a block while unchoked is now choked and back in
\* recv_message
C10_Witness ==
    \E s \in Sessions :
        /\ issued[s] # <<>>
        /\ peer_connections[s].choked
        /\ peer_connections[s].pc = "recv"

\* C26: the lock is free or held by one session, and it is held exactly
\* while that session is inside a coordinator operation, never while the
\* session reads from its socket, connects, sleeps or has ended; the holder
\* can always take the step that ends its operation and frees the lock; and
\* the lock changes hands only through the free state, so it is never taken
\* while held.
C26_LockDiscipline ==
    /\ [](/\ lock \in {0} \cup Sessions
          /\ \A s \in Sessions : lock = s <=> peer_connections[s].pc = "gnr_add"
          /\ lock # 0 => ENABLED (/\ ReserveAndRequest(lock)
                                  /\ UNCHANGED <<peerq, socklog>>
                                  /\ lock' = 0))
    /\ [][lock' # lock => lock = 0 \/ lock' = 0]_vars

\* one session holds the lock inside get_next_request while the other has
\* come to its own get_next_request and waits for the lock
C26_Witness ==
    \E s \in Sessions, t \in Sessions :
        /\ s # t
        /\ lock = s
        /\ peer_connections[s].pc = "gnr_add"
        /\ peer_connections[t].pc = "gnr"

\* the answers to the handshake that receive_handshake rejects
BadHandshakes == { h \in PeerHandshakes : ~receive_handshake(h, LocalInfoHash) }

\* the malformed frames among those a peer may send: a have message with a
\* payload of 3 bytes and a piece message for the piece index total_pieces
MalformedFrames(inf) ==
    { Frame(4, 3, 0, 0, <<>>), PieceMsg(total_pieces(inf), 0, Run(4, 0)) }

\* C29: a step in which a session meets an error (a pass of its connect
\* loop fails, a read fails, a have message comes with a payload that is
\* not 4 bytes, a piece message names a piece index out of range) changes
\* the record of no other session and leaves the coordinator as it was; the
\* malformed messages end the session that read them; and the rejected
\* deposit leaves the lock free.
C29_ErrorsStayInTheirSession ==
    [][\A s \in Sessions :
          LET OthersUntouched ==
                  \A t \in Sessions \ {s} : peer_connections'[t] = peer_connections[t]
              CoordinatorUntouched ==
                  <<piece_info, completed_pieces, lock>>' = <<piece_info, completed_pieces, lock>>
              Ended == peer_connections'[s].pc = "done"
          IN /\ peer_connections[s].pc = "connect" =>
                   /\ ConnectAttempt(s, FALSE, <<>>)
                         => OthersUntouched /\ CoordinatorUntouched
                   /\ \A sent \in BadHandshakes :
                         ConnectAttempt(s, TRUE, sent)
                             => OthersUntouched /\ CoordinatorUntouched
             /\ peer_connections[s].pc = "recv" =>
                   /\ RecvFail(s) => OthersUntouched /\ CoordinatorUntouched
                   /\ \A m \in MalformedFrames(info) :
                         /\ (m.id = 4 /\ m.plen # 4 /\ Recv(s, m))
                               => Ended /\ OthersUntouched /\ CoordinatorUntouched
                         /\ (IsDeposit(m) /\ m.index \notin DOMAIN piece_info
                                          /\ RecvPiece(s, m))
                               => Ended /\ OthersUntouched /\ CoordinatorUntouched
                                  /\ lock' = 0]_vars

\* one session has ended on an error, not told to stop, while the other is
\* unchoked in its steady-state loop with its socket open
C29_Witness ==
    \E s \in Sessions, t \in Sessions :
        /\ s # t
        /\ peer_connections[s].pc = "done"
        /\ peer_connections[s].running
        /\ peer_connections[s].sock = "closed"
        /\ peer_connections[t].pc = "recv"
        /\ peer_connections[t].sock = "open"
        /\ ~peer_connections[t].choked
        /\ peer_connections[t].running

\* ------------------------------------------------------------------------
\* The supervisor with peers that cannot be reached
\* ------------------------------------------------------------------------
AnnounceAny == \E peers \in Responses : SupStart(peers)

Tick == \E new_peers \in Responses : SupTick(new_peers)

ConnectRefused == \E s \in Sessions : ConnectAttempt(s, FALSE, <<>>) /\ UNCHANGED <<peerq, socklog>>

NextSup ==
    \/ AnnounceAny
    \/ SupLoopHead
    \/ Tick
    \/ SupInterrupt
    \/ SupStop
    \/ SupFinish
    \/ ConnectRefused
    \/ GiveUp

SpecSup == Init /\ [][NextSup]_vars

\* C9: no two sessions that have not terminated are bound to the same
\* endpoint.
C9_OneSessionPerEndpoint ==
    \A s \in Sessions, t \in Sessions :
        (s # t /\ peer_connections[s].ep = peer_connections[t].ep)
            => Terminated(s) \/ Terminated(t)

\* ------------------------------------------------------------------------
\* The supervisor while no connection attempt has come back yet
\* ------------------------------------------------------------------------
\* the sessions are still inside their first create_connection; one that is
\* told to stop leaves its connect loop
NextAdmit ==
    \/ AnnounceAny
    \/ SupLoopHead
    \/ Tick
    \/ SupInterrupt
    \/ SupStop
    \/ SupFinish
    \/ GiveUp

SpecAdmit == Init /\ [][NextAdmit]_vars

\* np[j] for the positions j of np in idx, in ascending order
RECURSIVE Pick(_, _, _)
Pick(np, idx, j) ==
    IF j > Len(np) THEN <<>>
    ELSE (IF j \in idx THEN <<np[j]>> ELSE <<>>) \o Pick(np, idx, j + 1)

\* the positions of the response np that hold an endpoint not known before
\* the response and not listed earlier in it
Admissible(np, known) ==
    { j \in 1..Len(np) : np[j] \notin known /\ \A i \in 1..(j - 1) : np[i] # np[j] }

\* C13: a tick that re-announces and is answered np leaves the sessions it
\* found untouched and appends one fresh session for each endpoint of np that
\* was not known and not listed earlier in np, in the order of np; these
\* endpoints, and no others, are added to existing_peers.
C13_ReannounceAdmitsUnknownOnce ==
    [][\A np \in Responses :
          SupTick(np) /\ sup'.reannounced =>
              LET eps == Pick(np, Admissible(np, sup.existing_peers), 1)
                  old == Len(peer_connections)
              IN /\ Len(peer_connections') = old + Len(eps)
                 /\ \A t \in 1..old : peer_connections'[t] = peer_connections[t]
                 /\ \A k \in 1..Len(eps) :
                        peer_connections'[old + k] = NewPeerConnection(eps[k])
                 /\ sup'.existing_peers =
                        sup.existing_peers \cup { eps[k] : k \in 1..Len(eps) }]_vars

\* a re-announce has just admitted one endpoint next to those already known
C13_Witness ==
    /\ sup.pc = "loop"
    /\ sup.reannounced
    /\ sup.admitted = 1
    /\ Len(peer_connections) >= 2
    /\ Cardinality(sup.existing_peers) >= 2
    /\ \A t \in 1..(Len(peer_connections) - 1) :
           peer_connections[t].ep # peer_connections[Len(peer_connections)].ep

\* ------------------------------------------------------------------------
\* One peer that serves every request
\* ------------------------------------------------------------------------
\* the torrent of the single-file scenario: pieces of 32768, 32768 and 4 bytes
LiveTorrents == { MakeInfo(32768, 65540, <<>>) }

InitLive == InitWith(LiveTorrents)

\* the tracker knows one peer
LivePeers == <<1>>

AnnounceLive == SupStart(LivePeers)

TickLive == SupTick(LivePeers)

\* the peer accepts the connection, answers the handshake and unchokes
ConnectLive ==
    \E s \in Sessions :
        /\ ConnectAttempt(s, TRUE, GoodHandshake)
        /\ peerq' = [peerq EXCEPT ![s] = <<Unchoke>>]
        /\ UNCHANGED socklog

\* the session reads the next frame the peer has sent
ReadLive ==
    \E s \in Sessions :
        /\ peerq[s] # <<>>
        /\ Recv(s, Head(peerq[s]))
        /\ peerq' = [peerq EXCEPT ![s] = Tail(@)]
        /\ UNCHANGED socklog

ReadPieceLive ==
    \E s \in Sessions :
        /\ peerq[s] # <<>>
        /\ RecvPiece(s, Head(peerq[s]))
        /\ peerq' = [peerq EXCEPT ![s] = Tail(@)]
        /\ UNCHANGED socklog

\* the read times out: the peer has nothing to send
ReadTimeoutLive ==
    \E s \in Sessions :
        /\ peerq[s] = <<>>
        /\ RecvFail(s)
        /\ UNCHANGED <<peerq, socklog>>

\* the block the peer sends in answer to request(i, begin, length)
Served(inf, req) ==
    PieceMsg(req[1], req[2],
             Slice(TruePiece(inf.piece_length, total_length(inf), req[1]),
                   req[2], req[2] + req[3]))

\* the session sends its request, if it got one, and the peer answers it
RequestLive ==
    \E s \in Sessions :
        /\ ReserveAndRequest(s)
        /\ peerq' = IF peer_connections[s].req = None THEN peerq
                    ELSE [peerq EXCEPT ![s] = Append(@, Served(info, peer_connections[s].req))]
        /\ UNCHANGED socklog

SupervisorLive == SupLoopHead \/ TickLive \/ SupStop \/ SupFinish

SessionLive ==
    ConnectLive \/ ReadLive \/ ReadPieceLive \/ ReadTimeoutLive \/ Select \/ RequestLive

NextLive ==
    \/ AnnounceLive
    \/ SupLoopHead
    \/ TickLive
    \/ SupStop
    \/ SupFinish
    \/ ConnectLive
    \/ ReadLive
    \/ ReadPieceLive
    \/ ReadTimeoutLive
    \/ Select
    \/ RequestLive

\* the supervisor thread and the session thread are each scheduled again
\* and again
SpecLive ==
    /\ InitLive
    /\ [][NextLive]_vars
    /\ WF_vars(AnnounceLive \/ SupervisorLive)
    /\ WF_vars(SessionLive)

\* the start() call has returned with every piece complete and the output
\* file holding the content, piece 0 to piece n-1
Downloaded ==
    /\ sup.pc = "done"
    /\ \A i \in DOMAIN piece_info : piece_info[i].complete
    /\ is_complete(piece_info)
    /\ output = [exists |-> TRUE, data |-> Content(total_length(info))]

\* C2: with one peer that serves every request and no socket failure, every
\* piece eventually is complete, the supervisor leaves its progress loop and
\* the output file is the concatenation of the pieces 0..n-1.
C2_EventuallyDownloaded == <>Downloaded

\* the download is over and the file is written
C2_Witness ==
    /\ Downloaded
    /\ output.data = Cat(completed_pieces[0], Cat(completed_pieces[1], completed_pieces[2]))
    /\ ByteLen(output.data) = 65540

\* ------------------------------------------------------------------------
\* One peer that serves every request, and a user who may interrupt
\* ------------------------------------------------------------------------
\* a single-file torrent of three pieces and a multi-file torrent of two
\* pieces whose first file ends inside piece 0
StopTorrents ==
    LiveTorrents \cup
    { MakeInfo(16384, 32768, <<[length |-> 10000], [length |-> 22768]>>) }

InitStop == InitWith(StopTorrents)

NextStop ==
    \/ AnnounceLive
    \/ SupLoopHead
    \/ TickLive
    \/ SupInterrupt
    \/ SupStop
    \/ SupFinish
    \/ ConnectLive
    \/ ReadLive
    \/ ReadPieceLive
    \/ ReadTimeoutLive
    \/ Select
    \/ RequestLive

SpecStop == InitStop /\ [][NextStop]_vars

\* some file has been opened for writing
Written(out) ==
    \/ out.exists
    \/ "files" \in DOMAIN out /\ \E k \in DOMAIN out.files : out.files[k].exists

RECURSIVE BytesIn(_)
BytesIn(fs) == IF fs = <<>> THEN 0 ELSE ByteLen(fs[1].data) + BytesIn(Tail(fs))

BytesWritten(out) ==
    ByteLen(out.data) + (IF "files" \in DOMAIN out THEN BytesIn(out.files) ELSE 0)

\* the step of start() that tests is_complete() in the finally block, taken
\* with every piece complete
CompletedRun == sup.pc = "final" /\ sup'.pc = "done" /\ is_complete(piece_info)

\* C17: when start() ends with every piece complete, the bytes written to
\* disk number total_length (info.length in single-file mode, the sum of the
\* file lengths in multi-file mode), and in single-file mode the file holds
\* the pieces 0 .. n-1 of the content in index order.
C17_WrittenBytesAreTheContent ==
    [][CompletedRun =>
        /\ BytesWritten(output') = total_length(info)
        /\ info.files = <<>> =>
              /\ total_length(info) = info.length
              /\ output'.exists
              /\ output'.data = Content(info.length)
              /\ \A i \in PieceIds(info) :
                    Slice(output'.data, i * info.piece_length, (i + 1) * info.piece_length)
                        = TruePiece(info.piece_length, info.length, i)
        /\ info.files # <<>> =>
              /\ ~output'.exists
              /\ \A k \in DOMAIN info.files : output'.files[k].exists]_vars

\* a single-file download of three pieces, the last of them short, has
\* ended and the file has been written
C17_Witness ==
    /\ sup.pc = "done"
    /\ is_complete(piece_info)
    /\ info.files = <<>>
    /\ total_pieces(info) = 3
    /\ output.exists
    /\ BytesWritten(output) = 65540

\* the supervisor goes through the body of its progress loop once
TickStep == sup.pc = "tick" /\ sup'.pc = "loop"

\* C12: at a tick, stagnant_time grows by 5 when no more pieces are complete
\* than the previous tick counted and falls to 0 otherwise; the tick
\* contacts the tracker exactly when the grown value has reached 30, which
\* takes six ticks in a row without progress, and leaves stagnant_time at 0.
C12_StagnationAndReannounce ==
    [][/\ sup'.stagnant_time \in {0, 5, 10, 15, 20, 25}
       /\ TickStep =>
             LET now   == Cardinality({ i \in DOMAIN piece_info : piece_info[i].complete })
                 grown == IF now > sup.seen_completed THEN 0 ELSE sup.stagnant_time + 5
             IN /\ sup'.reannounced <=> grown >= 30
                /\ sup'.reannounced => sup.stagnant_time = 25 /\ sup'.stagnant_time = 0
                /\ ~sup'.reannounced => sup'.stagnant_time = grown]_vars

\* a tick has just re-announced, after a piece had been completed and
\* counted by an earlier tick
C12_Witness ==
    /\ sup.pc = "loop"
    /\ sup.reannounced
    /\ sup.stagnant_time = 0
    /\ sup.seen_completed >= 1
    /\ ~is_complete(piece_info)

\* ------------------------------------------------------------------------
\* One session and what it does on its socket, with an arbitrary peer
\* ------------------------------------------------------------------------
\* send_message(msg) for a message of the given kind: the log of the
\* connection keeps its first MaxSent messages
Logged(l, kind) ==
    IF Len(l.sent) < MaxSent THEN [l EXCEPT !.sent = Append(@, kind)] ELSE l

\* LogConnect as it would be were interested sent before the answer to the
\* handshake is read
LogConnect_EarlyInterested(l, tcp, ok) ==
    [connects |-> l.connects + 1,
     accepted |-> tcp /\ ok,
     sent     |-> IF tcp THEN <<"handshake", "interested">> ELSE <<>>,
     reads    |-> l.reads,
     ops      |-> l.ops,
     idle     |-> l.idle,
     checked  |-> l.checked]

\* one pass of the connect loop on the log: create_connection is called;
\* on a new socket send_handshake() is the first send, and send_interested()
\* follows once receive_handshake() has returned True
LogConnect(l, tcp, ok) ==
    [connects |-> l.connects + 1,
     accepted |-> tcp /\ ok,
     sent     |-> IF ~tcp THEN <<>>
                  ELSE IF ok THEN <<"handshake", "interested">>
                  ELSE <<"handshake">>,
     reads    |-> l.reads,
     ops      |-> l.ops,
     idle     |-> l.idle,
     checked  |-> l.checked]

\* recv_message has returned: the log keeps the outcomes of the last
\* 2 * max_failures - 1 reads
LogRead(l, outcome) ==
    LET all == Append(l.reads, outcome)
    IN [l EXCEPT !.reads = IF Len(all) > 2 * max_failures - 1 THEN Tail(all) ELSE all]

\* the tracker knows one peer
WirePeers == <<1>>

AnnounceWire == SupStart(WirePeers)

ConnectWire ==
    \E s \in Sessions, tcp \in BOOLEAN, sent \in PeerHandshakes :
        /\ ConnectAttempt(s, tcp, sent)
        /\ socklog' = [socklog EXCEPT
               ![s] = LogConnect(@, tcp, receive_handshake(sent, LocalInfoHash))]
        /\ UNCHANGED peerq

\* at the head of an iteration more than KEEPALIVE_INTERVAL has passed since
\* the last send: the session sends a keep-alive before it reads
KeepAliveWire ==
    \E s \in Sessions :
        /\ peer_connections[s].pc = "recv"
        /\ socklog' = [socklog EXCEPT ![s] = Logged(@, "keep-alive")]
        /\ UNCHANGED <<info, pmvars, callvars, peer_connections, issued, peerq,
                       sup, output>>

ReadFailsWire ==
    \E s \in Sessions :
        /\ RecvFail(s)
        /\ socklog' = [socklog EXCEPT ![s] = LogRead(@, "fail")]
        /\ UNCHANGED peerq

ReadWire ==
    \E s \in Sessions, m \in SystemFrames(info) :
        /\ Recv(s, m)
        /\ socklog' = [socklog EXCEPT ![s] = LogRead(@, "ok")]
        /\ UNCHANGED peerq

ReadPieceWire ==
    \E s \in Sessions, m \in SystemFrames(info) :
        /\ RecvPiece(s, m)
        /\ socklog' = [socklog EXCEPT ![s] = LogRead(@, "ok")]
        /\ UNCHANGED peerq

\* the session sends the request, if get_next_request gave it one
RequestWire ==
    \E s \in Sessions :
        /\ ReserveAndRequest(s)
        /\ socklog' = [socklog EXCEPT
               ![s] = IF peer_connections[s].req = None THEN @
                      ELSE Logged(@, "request")]
        /\ UNCHANGED peerq

NextWire ==
    \/ AnnounceWire
    \/ SupInterrupt
    \/ SupStop
    \/ SupFinish
    \/ ConnectWire
    \/ GiveUp
    \/ KeepAliveWire
    \/ ReadFailsWire
    \/ ReadWire
    \/ ReadPieceWire
    \/ Select
    \/ RequestWire

SpecWire == Init /\ [][NextWire]_vars

\* the session's handshake has been accepted on its current connection
Accepted(s) == socklog[s].accepted

\* C14: a session gives up connecting only when three retries after the
\* first attempt have failed, a failed attempt leaves no socket behind, and
\* without an accepted handshake the session neither sends interested nor
\* enters the steady-state loop nor calls the coordinator.
C14_ThreeRetriesThenGiveUp ==
    \A s \in Sessions :
        LET c == peer_connections[s]
        IN /\ socklog[s].connects <= 1 + 3
           /\ Terminated(s) /\ c.running /\ c.sock = "None"
                  => socklog[s].connects = 1 + 3
           /\ c.pc = "connect" => c.sock = "None"
           /\ (\E k \in 1..Len(socklog[s].sent) : socklog[s].sent[k] = "interested")
                  => Accepted(s)
           /\ c.pc \in {"recv", "gnr", "gnr_add"} => Accepted(s)
           /\ issued[s] # <<>> => Accepted(s)

\* the number of failed reads at the end of the log
RECURSIVE TrailingFails(_)
TrailingFails(reads) ==
    IF reads = <<>> \/ reads[Len(reads)] # "fail" THEN 0
    ELSE 1 + TrailingFails(SubSeq(reads, 1, Len(reads) - 1))

\* C15: the failure count is the number of reads that have failed in a row
\* up to now (0 after a successful read); a session whose last three reads
\* failed has left the loop, no session reads on with three failures in a
\* row, and a session that ended right after a failed read, without having
\* been told to stop, had three failures in a row.
C15_ThreeFailuresInARow ==
    \A s \in Sessions :
        LET c == peer_connections[s]
            k == Min(TrailingFails(socklog[s].reads), max_failures)
        IN /\ c.consecutive_failures = k
           /\ k = max_failures => Terminated(s)
           /\ c.pc \in {"recv", "gnr", "gnr_add"} => k < max_failures
           /\ Terminated(s) /\ c.running /\ TrailingFails(socklog[s].reads) > 0
                  => k = max_failures

\* four of the last five reads failed, two and two around a successful one,
\* and the session reads on
C15_Witness ==
    \E s \in Sessions :
        /\ socklog[s].reads = <<"fail", "fail", "ok", "fail", "fail">>
        /\ peer_connections[s].pc = "recv"
        /\ peer_connections[s].running

\* C20: what a session has sent on its connection consists of handshake,
\* keep-alive, interested and request only; the handshake is the first
\* message and is sent once; interested is the second message exactly when
\* the handshake was accepted and is sent nowhere else; every request and
\* keep-alive comes after it.
C20_OnlyFourKindsInOrder ==
    \A s \in Sessions :
        LET sent == socklog[s].sent
        IN /\ \A k \in 1..Len(sent) :
                  sent[k] \in {"handshake", "keep-alive", "interested", "request"}
           /\ \A k \in 1..Len(sent) : sent[k] = "handshake" <=> k = 1
           /\ \A k \in 1..Len(sent) : sent[k] = "interested" => k = 2
           /\ Accepted(s) <=> Len(sent) >= 2 /\ sent[2] = "interested"
           /\ \A k \in 1..Len(sent) : sent[k] \in {"request", "keep-alive"} => k > 2

\* a session has sent its handshake, interested, a keep-alive and a request
C20_Witness ==
    \E s \in Sessions :
        /\ Len(socklog[s].sent) >= 4
        /\ socklog[s].sent[1] = "handshake"
        /\ socklog[s].sent[2] = "interested"
        /\ \E k \in 3..Len(socklog[s].sent) : socklog[s].sent[k] = "request"
        /\ \E k \in 3..Len(socklog[s].sent) : socklog[s].sent[k] = "keep-alive"

\* ------------------------------------------------------------------------
\* The assembly of the files, from any completion ledger
\* ------------------------------------------------------------------------
\* single-file torrents of one, two and three pieces, and multi-file
\* torrents whose files begin and end inside pieces, at piece boundaries, or
\* are empty
AsmFileLists ==
    { <<[length |-> a], [length |-> b], [length |-> c]>> :
        a \in {1, 10000, 16384}, b \in {0, 22768}, c \in {4, 16384} }
    \cup { <<[length |-> 10000], [length |-> 22768]>>, <<[length |-> 32768]>> }

AsmTorrents ==
    { MakeInfo(16384, t, <<>>) : t \in {4, 32768, 40000} }
    \cup { MakeInfo(16384, total_length([files |-> fs]), fs) : fs \in AsmFileLists }

\* the coordinator after the pieces of S were downloaded block by block
LedgerOf(inf, S) == [i \in S |-> TruePiece(inf.piece_length, total_length(inf), i)]

PieceInfoOf(inf, S) ==
    [i \in PieceIds(inf) |->
        IF i \in S
        THEN [expected_length |-> expected_length(inf, i),
              blocks          |-> [o \in BlockOffsets(expected_length(inf, i)) |->
                                     TrueBlock(inf, i, o)],
              requested       |-> BlockOffsets(expected_length(inf, i)),
              complete        |-> TRUE]
        ELSE PieceManagerInit(inf)[i]]

InitAsm ==
    /\ info \in AsmTorrents
    /\ \E S \in SUBSET PieceIds(info) :
          /\ piece_info = PieceInfoOf(info, S)
          /\ completed_pieces = LedgerOf(info, S)
    /\ lock = 0
    /\ ret = NoCall
    /\ peer_connections = <<>>
    /\ issued = <<>>
    /\ peerq = <<>>
    /\ socklog = <<>>
    /\ sup = [pc |-> "start", existing_peers |-> {}, last_completed |-> 0,
              stagnant_time |-> 0, seen_completed |-> 0, reannounced |-> FALSE,
              admitted |-> 0]
    /\ output = NoFile

\* what the assembly logs last: the files were saved, or the error caught by
\* its except clause
AssemblyLog(cp, n) == IF Missing(cp, n) THEN "error" ELSE "saved"

\* assemble_single_file() on a single-file torrent
CallAssembleSingleFile ==
    /\ ret = NoCall
    /\ info.files = <<>>
    /\ output' = assemble_single_file(completed_pieces, total_pieces(info))
    /\ ret' = [op |-> "assemble_single_file", req |-> None,
               log |-> AssemblyLog(completed_pieces, total_pieces(info)), all |-> FALSE]
    /\ UNCHANGED <<info, pmvars, sessvars, sup>>

\* assemble_multi_file() on a multi-file torrent
CallAssembleMultiFile ==
    /\ ret = NoCall
    /\ info.files # <<>>
    /\ output' = assemble_multi_file(completed_pieces, total_pieces(info), info.files)
    /\ ret' = [op |-> "assemble_multi_file", req |-> None,
               log |-> AssemblyLog(completed_pieces, total_pieces(info)), all |-> FALSE]
    /\ UNCHANGED <<info, pmvars, sessvars, sup>>

NextAsm ==
    \/ CallAssembleSingleFile
    \/ CallAssembleMultiFile

SpecAsm == InitAsm /\ [][NextAsm]_vars

\* the sum of the lengths of the file entries before the k-th
RECURSIVE LengthBefore(_, _)
LengthBefore(files, k) ==
    IF k <= 1 THEN 0 ELSE files[k - 1].length + LengthBefore(files, k - 1)

\* the files written, one after the other
RECURSIVE CatFiles(_)
CatFiles(fs) == IF fs = <<>> THEN <<>> ELSE Cat(fs[1].data, CatFiles(Tail(fs)))

\* C18: assemble_multi_file with every piece in the ledger gives the k-th
\* file entry exactly its length bytes, those of the piece concatenation
\* from the offset that is the sum of the lengths of the entries before it;
\* the files, in list order, make up the concatenation without gap or
\* overlap, wherever the piece boundaries fall.
C18_FilesPartitionTheConcatenation ==
    ret.op = "assemble_multi_file" /\ ~Missing(completed_pieces, total_pieces(info)) =>
        /\ DOMAIN output.files = DOMAIN info.files
        /\ \A k \in DOMAIN info.files :
              /\ output.files[k].exists
              /\ ByteLen(output.files[k].data) = info.files[k].length
              /\ output.files[k].data =
                    Slice(Content(total_length(info)),
                          LengthBefore(info.files, k),
                          LengthBefore(info.files, k) + info.files[k].length)
        /\ CatFiles(output.files) = Content(total_length(info))

\* three files were written of which the second begins inside piece 0 and
\* ends inside piece 2
C18_Witness ==
    /\ ret.op = "assemble_multi_file"
    /\ ret.log = "saved"
    /\ Len(info.files) = 3
    /\ LengthBefore(info.files, 2) = 10000
    /\ info.files[2].length = 22768
    /\ output.files[2].data = <<[n |-> 6384, v |-> 1], [n |-> 16384, v |-> 2]>>
    /\ ByteLen(output.files[3].data) = 16384

HsPstrlens == {0, 18, 19, 20, 255}
HsPstrs == { PSTR, Cat(Slice(PSTR, 0, 18), Run(1, 76)), Slice(PSTR, 0, 18), Cat(PSTR, Run(1, 0)) }
HsReserved == { Run(8, 0), Run(8, 255), BytesOf(<<0, 0, 0, 0, 0, 16, 0, 5>>) }
HsInfoHashes == { LocalInfoHash, Run(20, 201), Cat(Run(19, 200), Run(1, 7)) }
HsPeerIds == { Run(20, 66), LocalPeerId, LocalInfoHash }
HsCuts == {0, 67, 68, 100}

HsBytes ==
    { Slice(PackHandshake(pl, ps, rs, ih, pid), 0, cut) :
        pl \in HsPstrlens, ps \in HsPstrs, rs \in HsReserved,
        ih \in HsInfoHashes, pid \in HsPeerIds, cut \in HsCuts }

\* receive_handshake() on a socket on which the peer delivers `sent`; ret
\* records the bytes and the returned value
CallReceiveHandshake ==
    \E sent \in HsBytes :
        /\ ret = NoCall
        /\ ret' = [op |-> "receive_handshake", req |-> sent, log |-> "",
                   all |-> receive_handshake(sent, LocalInfoHash)]
        /\ UNCHANGED <<info, pmvars, sessvars, sup, output>>

NextHs == CallReceiveHandshake

SpecHs == Init /\ [][NextHs]_vars

\* the first 68 bytes delivered, with bytes 20..27 (reserved) and 48..67
\* (peer_id) replaced
WithReservedAndPeerId(h, rs, pid) ==
    Cat(Slice(h, 0, 20), Cat(rs, Cat(Slice(h, 28, 48), pid)))

\* C21: receive_handshake returns True exactly when 68 bytes arrived whose
\* first byte is 19, whose bytes 1..19 are "BitTorrent protocol" and whose
\* bytes 28..47 are the local info_hash; it returns False on fewer than 68
\* bytes; and its answer is the same whatever the reserved bytes and the
\* peer_id are.
C21_HandshakeAcceptedIff ==
    ret.op = "receive_handshake" =>
        /\ ret.all <=> /\ ByteLen(ret.req) >= 68
                       /\ Slice(ret.req, 0, 1) = Run(1, 19)
                       /\ Slice(ret.req, 1, 20) = PSTR
                       /\ Slice(ret.req, 28, 48) = LocalInfoHash
        /\ ByteLen(ret.req) < 68 => ~ret.all
        /\ ByteLen(ret.req) >= 68 =>
              \A rs \in HsReserved, pid \in HsPeerIds :
                  receive_handshake(WithReservedAndPeerId(ret.req, rs, pid), LocalInfoHash)
                      = ret.all

\* an answer with reserved bytes set and a peer id of its own was accepted
C21_Witness ==
    /\ ret.op = "receive_handshake"
    /\ ret.all
    /\ Slice(ret.req, 20, 28) = BytesOf(<<0, 0, 0, 0, 0, 16, 0, 5>>)
    /\ Slice(ret.req, 48, 68) = Run(20, 66)

\* ------------------------------------------------------------------------
\* The lengths of pieces and blocks, over torrents of many shapes
\* ------------------------------------------------------------------------
\* piece lengths that are and are not multiples of the block size, total
\* lengths that are and are not multiples of the piece length, in
\* single-file and multi-file mode
LenTorrents ==
    { MakeInfo(pl, t, <<>>) :
        pl \in {16384, 20000, 32768, 40000},
        t \in {4, 16384, 32772, 65536, 80000, 100000} }
    \cup { MakeInfo(20000, 32768, <<[length |-> 10000], [length |-> 22768]>>) }

InitLen == InitWith(LenTorrents)

\* mark_block_received of the block a peer serves in answer to the request
\* get_next_request returned last
CallMarkBlockServed ==
    /\ ret.op = "get_next_request"
    /\ ret.req # None
    /\ CanAcquire(lock)
    /\ \E r \in {mark_block_received(info, piece_info, completed_pieces,
                                     ret.req[1], ret.req[2], Served(info, ret.req).block)} :
          /\ piece_info' = r.piece_info
          /\ completed_pieces' = r.completed_pieces
          /\ ret' = [op |-> "mark_block_received", req |-> <<ret.req[1]>>,
                     log |-> VerificationLog(piece_info, r.piece_info, ret.req[1]),
                     all |-> FALSE]
    /\ UNCHANGED <<info, lock, sessvars, sup, output>>

NextLen ==
    \/ CallGetNextRequest
    \/ CallMarkBlockServed
    \/ CallIsComplete

SpecLen == InitLen /\ [][NextLen]_vars

\* the sum of the expected lengths of the pieces 0 .. n-1
RECURSIVE SumExpected(_, _)
SumExpected(pi, n) == IF n <= 0 THEN 0 ELSE pi[n - 1].expected_length + SumExpected(pi, n - 1)

\* C22: every piece but the last expects piece_length bytes and the last
\* total_length - piece_length * (total_pieces - 1), which is less than
\* piece_length when total_length is not a multiple of piece_length; each
\* is the length of that piece of the content, and together they make
\* total_length.  A request returned by get_next_request asks for
\* min(16384, expected_length - offset) bytes, between 1 and 16384, and for
\* fewer than 16384 only when it is the last block of its piece.
C22_ExpectedAndRequestLengths ==
    LET n  == total_pieces(info)
        pl == info.piece_length
        tl == total_length(info)
    IN /\ \A i \in PieceIds(info) :
            /\ i < n - 1 => piece_info[i].expected_length = pl
            /\ i = n - 1 => piece_info[i].expected_length = tl - pl * (n - 1)
            /\ piece_info[i].expected_length = ByteLen(TruePiece(pl, tl, i))
       /\ tl % pl # 0 => piece_info[n - 1].expected_length < pl
       /\ piece_info[n - 1].expected_length > 0
       /\ SumExpected(piece_info, n) = tl
       /\ ret.op = "get_next_request" /\ ret.req # None =>
            LET expected == piece_info[ret.req[1]].expected_length
                offset   == ret.req[2]
                length   == ret.req[3]
            IN /\ length = Min(16384, expected - offset)
               /\ length \in 1..16384
               /\ length < 16384 =>
                    /\ offset + length = expected
                    /\ \A o \in BlockOffsets(expected) : o <= offset

\* get_next_request has returned the short last block of a piece that is
\* not the last piece, and of the last piece
C22_Witness ==
    /\ ret.op = "get_next_request"
    /\ ret.req # None
    /\ ret.req[3] < 16384
    /\ \/ ret.req[1] < total_pieces(info) - 1
       \/ /\ ret.req[1] = total_pieces(info) - 1
          /\ ret.req[2] > 0
          /\ total_length(info) % info.piece_length # 0

\* ------------------------------------------------------------------------
\* The supervisor and a tracker that may fail
\* ------------------------------------------------------------------------
AnnounceTrk == \E reply \in TrackerReplies : SupStart(contact_tracker(reply))

TickTrk == \E reply \in TrackerReplies : SupTick(contact_tracker(reply))

NextTrk ==
    \/ AnnounceTrk
    \/ SupLoopHead
    \/ TickTrk
    \/ SupInterrupt
    \/ SupStop
    \/ SupFinish
    \/ GiveUp

SpecTrk == Init /\ [][NextTrk]_vars

\* the announce yields no peers: request error, status other than 200,
\* failure reason, or an empty list
NoPeers(reply) ==
    reply.error \/ reply.status # 200 \/ reply.failure \/ reply.peers = <<>>

\* C23: an announce that yields no peers starts no session and does not end
\* start(): the first announce leaves no session and no known peer, a
\* re-announce leaves the sessions and existing_peers as they were; either
\* way the supervisor goes on with its progress loop, and a re-announce,
\* made when stagnant_time has come to 30, leaves it at 0 so that the next
\* one follows 30 s of stagnation later.
C23_NoPeersKeepsRunning ==
    [][\A reply \in TrackerReplies :
          NoPeers(reply) =>
              /\ SupStart(contact_tracker(reply)) =>
                    /\ peer_connections' = <<>>
                    /\ sup'.existing_peers = {}
                    /\ sup'.pc = "loop"
              /\ SupTick(contact_tracker(reply)) /\ sup'.reannounced =>
                    /\ sup.stagnant_time + 5 = 30
                    /\ peer_connections' = peer_connections
                    /\ sup'.existing_peers = sup.existing_peers
                    /\ sup'.admitted = 0
                    /\ sup'.stagnant_time = 0
                    /\ sup'.pc = "loop"]_vars

\* the first announce and a re-announce have both yielded no peers: the
\* supervisor is in its progress loop with no session and no known peer
C23_Witness ==
    /\ sup.pc = "loop"
    /\ sup.reannounced
    /\ sup.stagnant_time = 0
    /\ peer_connections = <<>>
    /\ sup.existing_peers = {}

\* ------------------------------------------------------------------------
\* The deposit that completes a piece, statement by statement
\* ------------------------------------------------------------------------
\* the deposit reaches the verification and the digest matches
Verifies(inf, pi, piece_index, offset, data) ==
    LET blocks1 == PutBlock(pi[piece_index].blocks, offset, data)
    IN /\ TotalReceived(blocks1) >= pi[piece_index].expected_length
       /\ SHA1(JoinBlocks(blocks1)) = inf.pieces[piece_index + 1]

\* mark_block_received up to `info["complete"] = True`: the lock is taken,
\* the block stored, the joined blocks verified and the flag set; the
\* ledger has not been written yet
RecvPieceSetFlag(s, m) ==
    LET c  == peer_connections[s]
        c0 == [c EXCEPT !.consecutive_failures = 0]
    IN /\ c.pc = "recv"
       /\ IsDeposit(m)
       /\ CanAcquire(lock)
       /\ m.index \in DOMAIN piece_info
       /\ Verifies(info, piece_info, m.index, m.begin, m.block)
       /\ lock' = s
       /\ piece_info' = [piece_info EXCEPT
              ![m.index].blocks = PutBlock(@, m.begin, m.block),
              ![m.index].complete = TRUE]
       /\ peer_connections' = [peer_connections EXCEPT
              ![s] = [c0 EXCEPT !.pc = "mbr_ledger", !.req = <<m.index>>]]
       /\ UNCHANGED <<info, completed_pieces, callvars, issued, sup, output>>

\* `self.completed_pieces[piece_index] = piece_data`, the end of the `with`
\* block, and the `if not self.choked:` of the session
RecvPieceStoreLedger(s) ==
    LET c == peer_connections[s]
    IN /\ c.pc = "mbr_ledger"
       /\ completed_pieces' = PutPiece(completed_pieces, c.req[1],
                                       JoinBlocks(piece_info[c.req[1]].blocks))
       /\ lock' = 0
       /\ peer_connections' = [peer_connections EXCEPT
              ![s] = AfterDispatch([c EXCEPT !.req = None])]
       /\ UNCHANGED <<info, piece_info, callvars, issued, sup, output>>

\* the session reads a piece message that does not complete its piece
ReadPieceRace ==
    \E s \in Sessions :
        /\ peerq[s] # <<>>
        /\ Head(peerq[s]).index \in DOMAIN piece_info
              => ~Verifies(info, piece_info, Head(peerq[s]).index,
                           Head(peerq[s]).begin, Head(peerq[s]).block)
        /\ RecvPiece(s, Head(peerq[s]))
        /\ peerq' = [peerq EXCEPT ![s] = Tail(@)]
        /\ UNCHANGED socklog

\* the session reads the piece message that completes its piece
SetFlagRace ==
    \E s \in Sessions :
        /\ peerq[s] # <<>>
        /\ RecvPieceSetFlag(s, Head(peerq[s]))
        /\ peerq' = [peerq EXCEPT ![s] = Tail(@)]
        /\ UNCHANGED socklog

StoreLedgerRace ==
    \E s \in Sessions : RecvPieceStoreLedger(s) /\ UNCHANGED <<peerq, socklog>>

NextRace ==
    \/ AnnounceLive
    \/ SupLoopHead
    \/ TickLive
    \/ SupStop
    \/ SupFinish
    \/ ConnectLive
    \/ ReadLive
    \/ ReadPieceRace
    \/ SetFlagRace
    \/ StoreLedgerRace
    \/ ReadTimeoutLive
    \/ Select
    \/ RequestLive

SpecRace == InitLive /\ [][NextRace]_vars

\* C25: a ledger entry holds bytes that passed the verification, and a
\* reader that sees the complete flag of a piece set finds the piece in the
\* ledger: the readers under the lock (is_complete, and the assembly that
\* follows it) and the progress count of the supervisor, which reads the
\* flags without the lock.
C25_CompleteFlagImpliesLedgerEntry ==
    /\ \A i \in DOMAIN completed_pieces :
          SHA1(completed_pieces[i]) = info.pieces[i + 1]
    /\ \A i \in DOMAIN piece_info :
          piece_info[i].complete /\ (lock = 0 \/ sup.pc = "tick") =>
              /\ i \in DOMAIN completed_pieces
              /\ completed_pieces[i] = TruePiece(info.piece_length, total_length(info), i)

\* ------------------------------------------------------------------------
\* Sessions that are told to stop at any point of run()
\* ------------------------------------------------------------------------
\* `while attempt < max_retries and self.running:` lets the session into
\* another pass of the connect loop: it sleeps and calls create_connection
ConnectBegin(s) ==
    LET c == peer_connections[s]
    IN /\ c.pc = "connect"
       /\ c.attempt < max_retries /\ c.running
       /\ peer_connections' = [peer_connections EXCEPT ![s].pc = "connecting"]
       /\ UNCHANGED <<info, pmvars, callvars, issued, sup, output>>

\* the pass ends: the handshake was accepted (break, send_interested(), on
\* to the test of the steady-state loop) or the pass failed (attempt += 1,
\* the socket closed and forgotten)
ConnectEnd(s, tcp, sent) ==
    LET c == peer_connections[s]
    IN /\ c.pc = "connecting"
       /\ IF tcp /\ receive_handshake(sent, LocalInfoHash)
          THEN peer_connections' = [peer_connections EXCEPT
                   ![s] = LoopHead([c EXCEPT !.sock = "open"])]
          ELSE peer_connections' = [peer_connections EXCEPT
                   ![s] = [c EXCEPT !.attempt = @ + 1, !.sock = "None",
                                    !.pc = "connect"]]
       /\ UNCHANGED <<info, pmvars, callvars, issued, sup, output>>

ConnectBeginHalt == \E s \in Sessions : ConnectBegin(s) /\ UNCHANGED <<peerq, socklog>>

ConnectEndHalt ==
    \E s \in Sessions, tcp \in BOOLEAN, sent \in PeerHandshakes :
        ConnectEnd(s, tcp, sent) /\ UNCHANGED <<peerq, socklog>>

NextHalt ==
    \/ Announce
    \/ SupInterrupt
    \/ SupStop
    \/ SupFinish
    \/ ConnectBeginHalt
    \/ ConnectEndHalt
    \/ GiveUp
    \/ ReadFails
    \/ Read
    \/ ReadPiece
    \/ Select
    \/ Request

SpecHalt == Init /\ [][NextHalt]_vars

\* how far a session is through run(): inside a pass of the connect loop,
\* at the test of the connect loop, inside recv_message, before
\* get_next_request, inside get_next_request, ended
HaltRank(pc) ==
    CASE pc = "connecting" -> 0
      [] pc = "connect"    -> 1
      [] pc = "recv"       -> 2
      [] pc = "gnr"        -> 3
      [] pc = "gnr_add"    -> 4
      [] pc = "done"       -> 5

\* the session's own part of its record
Own(c) == [c EXCEPT !.running = FALSE]

\* C27: once running is false, every step of the session takes it further
\* towards the end of run() and none takes it back: from inside
\* recv_message it finishes that read and at most one get_next_request and
\* request and then ends, never reading again; at the test of the connect
\* loop it ends without another pass; it ends with its socket closed; once
\* ended it takes no step; and when every session has ended the coordinator
\* changes no more.
C27_StopWithinOneIteration ==
    [][/\ \A s \in Sessions :
             LET c == peer_connections[s]
                 d == peer_connections'[s]
             IN /\ ~c.running /\ Own(d) # Own(c) =>
                      /\ HaltRank(d.pc) > HaltRank(c.pc)
                      /\ d.pc # "recv"
                      /\ c.pc = "connect" => d.pc = "done"
                      /\ d.pc = "done" => d.sock \in {"None", "closed"}
                /\ c.pc = "done" => Own(d) = Own(c)
       /\ (\A s \in Sessions : peer_connections[s].pc = "done") =>
             <<piece_info, completed_pieces, lock>>' = <<piece_info, completed_pieces, lock>>]_vars

\* a session that was told to stop inside its read has finished the read
\* and is about to send the one request of its current iteration
C27_Witness ==
    \E s \in Sessions :
        /\ ~peer_connections[s].running
        /\ peer_connections[s].pc = "gnr_add"
        /\ peer_connections[s].req # None
        /\ lock = s

\* ------------------------------------------------------------------------
\* A socket on which writes may fail as well as reads
\* ------------------------------------------------------------------------
\* a socket operation of the steady-state loop has ended, well or not: the
\* log keeps the last max_failures of them
LogOp(l, kind, ok) ==
    LET all == Append(l.ops, [kind |-> kind, ok |-> ok])
    IN [l EXCEPT !.ops = IF Len(all) > max_failures THEN Tail(all) ELSE all]

ConnectErr ==
    \E s \in Sessions, tcp \in BOOLEAN, sent \in PeerHandshakes :
        /\ ConnectAttempt(s, tcp, sent)
        /\ UNCHANGED <<peerq, socklog>>

\* the keep-alive of an iteration, sent before its read: sendall raises or
\* not, and send_message returns either way
KeepAliveErr ==
    \E s \in Sessions, ok \in BOOLEAN :
        /\ peer_connections[s].pc = "recv"
        /\ socklog[s].ops # <<>> =>
              socklog[s].ops[Len(socklog[s].ops)].kind # "keep-alive"
        /\ socklog' = [socklog EXCEPT ![s] = LogOp(@, "keep-alive", ok)]
        /\ UNCHANGED <<info, pmvars, callvars, peer_connections, issued, peerq,
                       sup, output>>

ReadFailsErr ==
    \E s \in Sessions :
        /\ RecvFail(s)
        /\ socklog' = [socklog EXCEPT ![s] = LogOp(@, "read", FALSE)]
        /\ UNCHANGED peerq

ReadErr ==
    \E s \in Sessions, m \in SystemFrames(info) :
        /\ Recv(s, m)
        /\ socklog' = [socklog EXCEPT ![s] = LogOp(@, "read", TRUE)]
        /\ UNCHANGED peerq

ReadPieceErr ==
    \E s \in Sessions, m \in SystemFrames(info) :
        /\ RecvPiece(s, m)
        /\ socklog' = [socklog EXCEPT ![s] = LogOp(@, "read", TRUE)]
        /\ UNCHANGED peerq

\* send_request, if get_next_request gave a request: sendall raises or not,
\* and send_message returns either way
RequestErr ==
    \E s \in Sessions, ok \in BOOLEAN :
        /\ ReserveAndRequest(s)
        /\ socklog' = [socklog EXCEPT
               ![s] = IF peer_connections[s].req = None THEN @
                      ELSE LogOp(@, "request", ok)]
        /\ UNCHANGED peerq

NextErr ==
    \/ AnnounceWire
    \/ SupInterrupt
    \/ SupStop
    \/ SupFinish
    \/ ConnectErr
    \/ GiveUp
    \/ KeepAliveErr
    \/ ReadFailsErr
    \/ ReadErr
    \/ ReadPieceErr
    \/ Select
    \/ RequestErr

SpecErr == Init /\ [][NextErr]_vars

\* C28: a session whose last three socket operations in steady state,
\* reads or writes, have all failed has left its loop.
C28_ThreeFailedOperationsTerminate ==
    \A s \in Sessions :
        (/\ Len(socklog[s].ops) = max_failures
         /\ \A k \in 1..max_failures : ~socklog[s].ops[k].ok)
            => peer_connections[s].pc = "done"

\* ------------------------------------------------------------------------
\* A peer that serves every request next to a peer that never answers
\* ------------------------------------------------------------------------
\* the peer at this endpoint accepts the connection and unchokes, and then
\* answers no request: it stays silent or chokes
SilentEndpoint == 1

\* a single-file torrent of two pieces, of one block each
StarveTorrents == { MakeInfo(16384, 16388, <<>>) }

InitStarve == InitWith(StarveTorrents)

AnnounceStarve == SupStart(SessionPeers)

TickStarve == SupTick(SessionPeers)

ConnectStarve(s) ==
    /\ s \in Sessions
    /\ ConnectAttempt(s, TRUE, GoodHandshake)
    /\ peerq' = [peerq EXCEPT ![s] = <<Unchoke>>]
    /\ UNCHANGED socklog

ReadStarve(s) ==
    /\ s \in Sessions
    /\ peerq[s] # <<>>
    /\ Recv(s, Head(peerq[s]))
    /\ peerq' = [peerq EXCEPT ![s] = Tail(@)]
    /\ UNCHANGED socklog

ReadPieceStarve(s) ==
    /\ s \in Sessions
    /\ peerq[s] # <<>>
    /\ RecvPiece(s, Head(peerq[s]))
    /\ peerq' = [peerq EXCEPT ![s] = Tail(@)]
    /\ UNCHANGED socklog

\* the read times out: the peer has sent nothing
ReadTimeoutStarve(s) ==
    /\ s \in Sessions
    /\ peerq[s] = <<>>
    /\ RecvFail(s)
    /\ UNCHANGED <<peerq, socklog>>

SelectStarve(s) == s \in Sessions /\ AcquireAndScan(s)

\* what the peer of session s sends when it is sent the request req
AnswersTo(s, req) ==
    IF peer_connections[s].ep = SilentEndpoint
    THEN { <<>>, <<Choke>> }
    ELSE { <<Served(info, req)>> }

\* the session sends its request, if it got one, and its peer answers it
\* or not
RequestStarve(s) ==
    /\ s \in Sessions
    /\ ReserveAndRequest(s)
    /\ IF peer_connections[s].req = None
       THEN peerq' = peerq
       ELSE \E answer \in AnswersTo(s, peer_connections[s].req) :
               peerq' = [peerq EXCEPT ![s] = @ \o answer]
    /\ UNCHANGED socklog

SupervisorStarve == AnnounceStarve \/ SupLoopHead \/ TickStarve \/ SupStop \/ SupFinish

SessionStarve(s) ==
    \/ ConnectStarve(s)
    \/ ReadStarve(s)
    \/ ReadPieceStarve(s)
    \/ ReadTimeoutStarve(s)
    \/ SelectStarve(s)
    \/ RequestStarve(s)

NextStarve ==
    \/ AnnounceStarve
    \/ SupLoopHead
    \/ TickStarve
    \/ SupStop
    \/ SupFinish
    \/ \E s \in Sessions : ConnectStarve(s)
    \/ \E s \in Sessions : ReadStarve(s)
    \/ \E s \in Sessions : ReadPieceStarve(s)
    \/ \E s \in Sessions : ReadTimeoutStarve(s)
    \/ \E s \in Sessions : SelectStarve(s)
    \/ \E s \in Sessions : RequestStarve(s)

\* the supervisor thread and each session thread are scheduled again and
\* again
SpecStarve ==
    /\ InitStarve
    /\ [][NextStarve]_vars
    /\ WF_vars(SupervisorStarve)
    /\ \A s \in 1..Len(SessionPeers) : WF_vars(SessionStarve(s))

\* C30: with one peer that never answers and one that serves every request
\* it is sent, every piece is eventually complete.
C30_SilentPeerCannotStarve == <>(\A i \in DOMAIN piece_info : piece_info[i].complete)

\* ------------------------------------------------------------------------
\* The sets blocks and requested of a piece
\* ------------------------------------------------------------------------
\* C31: in every reachable state, no offset of a piece is both a key of
\* blocks and a member of requested: a deposited offset has left requested.
C31_BlocksAndRequestedDisjoint ==
    \A i \in DOMAIN piece_info :
        (DOMAIN piece_info[i].blocks) \cap piece_info[i].requested = {}

\* C32: no step changes the blocks or the requested set of a piece that is
\* complete.
C32_CompletePieceFrozen ==
    [][\A i \in DOMAIN piece_info :
          piece_info[i].complete =>
              /\ piece_info'[i].blocks = piece_info[i].blocks
              /\ piece_info'[i].requested = piece_info[i].requested]_vars

\* ------------------------------------------------------------------------
\* Peers that send piece messages at any offset
\* ------------------------------------------------------------------------
\* a single-file torrent of one piece of two blocks
OffsetTorrents == { MakeInfo(32768, 32768, <<>>) }

\* the `begin` fields of the piece messages a peer sends: a block offset,
\* an offset that is no multiple of the block size, and the piece length
PeerOffsets(inf) == {0, BLOCK_SIZE \div 2, inf.piece_length}

\* the frames a peer sends: unchoke, and piece messages whose payload is the
\* block of the content at the offset, or a single byte
OffsetFrames(inf) ==
    { Unchoke }
    \cup { PieceMsg(i, b, TrueBlock(inf, i, b)) :
             i \in PieceIds(inf), b \in PeerOffsets(inf) \cap BlockOffsets(inf.piece_length) }
    \cup { PieceMsg(i, b, Run(1, 0)) : i \in PieceIds(inf), b \in PeerOffsets(inf) }

InitOff == InitWith(OffsetTorrents)

ReadOff ==
    \E s \in Sessions, m \in OffsetFrames(info) : Recv(s, m) /\ UNCHANGED <<peerq, socklog>>

ReadPieceOff ==
    \E s \in Sessions, m \in OffsetFrames(info) : RecvPiece(s, m) /\ UNCHANGED <<peerq, socklog>>

NextOff ==
    \/ AnnounceLive
    \/ SupInterrupt
    \/ SupStop
    \/ SupFinish
    \/ Connect
    \/ GiveUp
    \/ ReadFails
    \/ ReadOff
    \/ ReadPieceOff
    \/ Select
    \/ Request

SpecOff == InitOff /\ [][NextOff]_vars

\* C33: in every reachable state, every key of blocks and every member of
\* requested of every piece is a multiple of the block size below the
\* piece's expected_length.
C33_OffsetsAlignedAndInRange ==
    \A i \in DOMAIN piece_info :
        \A o \in (DOMAIN piece_info[i].blocks) \cup piece_info[i].requested :
            /\ o % BLOCK_SIZE = 0
            /\ o < piece_info[i].expected_length

\* ------------------------------------------------------------------------
\* The reads and the requests of a session, in the order they happen
\* ------------------------------------------------------------------------
\* recv_message has returned ("fail" for None, "keep-alive" for the
\* zero-length frame, "message" for any other frame), send_request was
\* called ("request"), a keep-alive was sent ("send-keep-alive") or
\* sendall has raised ("send-fail"): the log keeps all of them, in order
LogStep(l, kind) ==
    [l EXCEPT !.ops = Append(@, [kind |-> kind, ok |-> kind \notin {"fail", "send-fail"}])]

\* the log has room for one more entry
LogOpen(s) == Len(socklog[s].ops) < MaxOps

ReadFailsReq ==
    \E s \in Sessions :
        /\ LogOpen(s)
        /\ RecvFail(s)
        /\ socklog' = [socklog EXCEPT ![s] = LogStep(@, "fail")]
        /\ UNCHANGED peerq

ReadReq ==
    \E s \in Sessions, m \in SystemFrames(info) :
        /\ LogOpen(s)
        /\ Recv(s, m)
        /\ socklog' = [socklog EXCEPT
               ![s] = LogStep(@, IF m.id = -1 THEN "keep-alive" ELSE "message")]
        /\ UNCHANGED peerq

ReadPieceReq ==
    \E s \in Sessions, m \in SystemFrames(info) :
        /\ LogOpen(s)
        /\ RecvPiece(s, m)
        /\ socklog' = [socklog EXCEPT ![s] = LogStep(@, "message")]
        /\ UNCHANGED peerq

\* the session sends the request, if get_next_request gave it one
RequestReq ==
    \E s \in Sessions :
        /\ LogOpen(s)
        /\ ReserveAndRequest(s)
        /\ socklog' = [socklog EXCEPT
               ![s] = IF peer_connections[s].req = None THEN @
                      ELSE LogStep(@, "request")]
        /\ UNCHANGED peerq

NextReq ==
    \/ AnnounceWire
    \/ SupInterrupt
    \/ SupStop
    \/ SupFinish
    \/ ConnectErr
    \/ GiveUp
    \/ ReadFailsReq
    \/ ReadReq
    \/ ReadPieceReq
    \/ Select
    \/ RequestReq

\* the torrent has more than one block, so that a block is free to be
\* requested after most reads
SpecReq == InitOff /\ [][NextReq]_vars

CountOf(ops, kind) == Cardinality({ k \in DOMAIN ops : ops[k].kind = kind })

\* the step appends a request to the log of session s
SendsRequest(s) ==
    /\ s \in DOMAIN socklog
    /\ Len(socklog'[s].ops) = Len(socklog[s].ops) + 1
    /\ socklog'[s].ops[Len(socklog'[s].ops)].kind = "request"

\* C34: a session has sent at most as many requests as it has received
\* messages other than keep-alives, every request it sends directly follows
\* such a message (none follows a failed read or a keep-alive), and the step
\* that sends a request is the one in which the session, holding the lock,
\* reserves exactly one offset that was not reserved.
C34_OneRequestPerReceivedMessage ==
    /\ [](\A s \in Sessions :
             LET ops == socklog[s].ops
             IN /\ CountOf(ops, "request") <= CountOf(ops, "message")
                /\ \A k \in DOMAIN ops :
                      ops[k].kind = "request" => k > 1 /\ ops[k - 1].kind = "message")
    /\ [][\A s \in Sessions :
             SendsRequest(s) =>
                 /\ lock = s
                 /\ \E i \in DOMAIN piece_info :
                    \E o \in BlockOffsets(piece_info[i].expected_length) :
                       /\ o \notin piece_info[i].requested
                       /\ piece_info' = [piece_info EXCEPT ![i].requested = @ \cup {o}]
                       /\ issued'[s] = Append(issued[s], <<i, o>>)]_vars

\* a session has sent two requests, with a failed read or a keep-alive
\* in between
C34_Witness ==
    \E s \in Sessions :
        /\ CountOf(socklog[s].ops, "request") >= 2
        /\ CountOf(socklog[s].ops, "fail") + CountOf(socklog[s].ops, "keep-alive") >= 1

\* the step appends a received keep-alive to the log of session s
ReadsKeepAlive(s) ==
    /\ s \in DOMAIN socklog
    /\ Len(socklog'[s].ops) = Len(socklog[s].ops) + 1
    /\ socklog'[s].ops[Len(socklog'[s].ops)].kind = "keep-alive"

\* C35: the read of a zero-length frame resets the count of failed reads and
\* takes the session back to the head of its loop: choked, the coordinator
\* (piece_info, ledger, lock) and the reservations stay as they are, the
\* session does not go on to get_next_request, and no request in a
\* session's log directly follows a keep-alive.
C35_KeepAliveDoesNotAdvance ==
    /\ [][\A s \in Sessions :
             ReadsKeepAlive(s) =>
                 /\ peer_connections'[s].consecutive_failures = 0
                 /\ peer_connections'[s].choked = peer_connections[s].choked
                 /\ peer_connections'[s].pc \in {"recv", "done"}
                 /\ peer_connections'[s].req = peer_connections[s].req
                 /\ UNCHANGED <<piece_info, completed_pieces, lock, issued>>]_vars
    /\ [](\A s \in Sessions :
             \A k \in DOMAIN socklog[s].ops :
                 (k > 1 /\ socklog[s].ops[k - 1].kind = "keep-alive")
                     => socklog[s].ops[k].kind # "request")

\* an unchoked session for which a block is free has read a keep-alive
\* right after a failed read, and is back at the head of its loop
C35_Witness ==
    \E s \in Sessions :
        LET ops == socklog[s].ops
        IN /\ Len(ops) >= 2
           /\ ops[Len(ops)].kind = "keep-alive"
           /\ ops[Len(ops) - 1].kind = "fail"
           /\ ~peer_connections[s].choked
           /\ peer_connections[s].pc = "recv"
           /\ peer_connections[s].consecutive_failures = 0
           /\ SelectRequest(piece_info) # None

\* ------------------------------------------------------------------------
\* A session and the time since its last_activity
\* ------------------------------------------------------------------------
\* self.last_activity = time.time()
Touch(l) == [l EXCEPT !.idle = 0]

\* time passes, for every session alike, while not more than twice the
\* keep-alive interval has gone by without activity
Elapse ==
    \E d \in {KEEPALIVE_INTERVAL \div 2} :
        /\ Sessions # {}
        /\ \A s \in Sessions : socklog[s].idle + d <= 2 * KEEPALIVE_INTERVAL
        /\ socklog' = [s \in DOMAIN socklog |-> [socklog[s] EXCEPT !.idle = @ + d]]
        /\ UNCHANGED <<info, pmvars, callvars, peer_connections, issued, peerq,
                       sup, output>>

\* a pass of the connect loop: send_handshake on the new socket, and
\* send_interested once the handshake is accepted, set last_activity;
\* receive_handshake does not
ConnectClk ==
    \E s \in Sessions, tcp \in BOOLEAN, sent \in PeerHandshakes :
        /\ ConnectAttempt(s, tcp, sent)
        /\ socklog' = [socklog EXCEPT ![s] = IF tcp THEN Touch(@) ELSE @]
        /\ UNCHANGED peerq

\* the head of an iteration: `if time.time() - self.last_activity >
\* KEEPALIVE_INTERVAL` the keep-alive is sent; sendall raises or not
KeepAliveClk ==
    \E s \in Sessions, ok \in BOOLEAN :
        /\ Len(socklog[s].ops) < MaxTimedOps
        /\ peer_connections[s].pc = "recv"
        /\ ~socklog[s].checked
        /\ socklog' = [socklog EXCEPT
               ![s] = LET l == [@ EXCEPT !.checked = TRUE]
                      IN IF l.idle > KEEPALIVE_INTERVAL
                         THEN IF ok THEN Touch(LogStep(l, "send-keep-alive"))
                              ELSE LogStep(l, "send-fail")
                         ELSE l]
        /\ UNCHANGED <<info, pmvars, callvars, peer_connections, issued, peerq,
                       sup, output>>

\* the read of the iteration has returned
Returned(l, kind) == [LogStep(l, kind) EXCEPT !.checked = FALSE]

ReadFailsClk ==
    \E s \in Sessions :
        /\ Len(socklog[s].ops) < MaxTimedOps
        /\ socklog[s].checked
        /\ RecvFail(s)
        /\ socklog' = [socklog EXCEPT ![s] = Returned(@, "fail")]
        /\ UNCHANGED peerq

\* recv_message returns the keep-alive before it comes to its
\* `self.last_activity = time.time()`, which follows the read of the body
ReadClk ==
    \E s \in Sessions, m \in SystemFrames(info) :
        /\ Len(socklog[s].ops) < MaxTimedOps
        /\ socklog[s].checked
        /\ Recv(s, m)
        /\ socklog' = [socklog EXCEPT
               ![s] = IF m.id = -1 THEN Returned(@, "keep-alive")
                      ELSE Touch(Returned(@, "message"))]
        /\ UNCHANGED peerq

ReadPieceClk ==
    \E s \in Sessions, m \in SystemFrames(info) :
        /\ Len(socklog[s].ops) < MaxTimedOps
        /\ socklog[s].checked
        /\ RecvPiece(s, m)
        /\ socklog' = [socklog EXCEPT ![s] = Touch(Returned(@, "message"))]
        /\ UNCHANGED peerq

\* send_request, if get_next_request gave a request: sendall raises or not
RequestClk ==
    \E s \in Sessions, ok \in BOOLEAN :
        /\ Len(socklog[s].ops) < MaxTimedOps
        /\ ReserveAndRequest(s)
        /\ socklog' = [socklog EXCEPT
               ![s] = IF peer_connections[s].req = None THEN @
                      ELSE IF ok THEN Touch(LogStep(@, "request"))
                      ELSE LogStep(@, "send-fail")]
        /\ UNCHANGED peerq

NextClk ==
    \/ AnnounceWire
    \/ SupInterrupt
    \/ SupStop
    \/ SupFinish
    \/ Elapse
    \/ ConnectClk
    \/ GiveUp
    \/ KeepAliveClk
    \/ ReadFailsClk
    \/ ReadClk
    \/ ReadPieceClk
    \/ Select
    \/ RequestClk

SpecClk == Init /\ [][NextClk]_vars

\* the step appends an entry of one of the kinds to the log of session s
Logs(s, kinds) ==
    /\ s \in DOMAIN socklog
    /\ Len(socklog'[s].ops) = Len(socklog[s].ops) + 1
    /\ socklog'[s].ops[Len(socklog'[s].ops)].kind \in kinds

\* C36: every successful send and every successful receive, that of a
\* keep-alive included, sets last_activity to the time of the step, and at
\* the head of an iteration a keep-alive is sent exactly when more than
\* KEEPALIVE_INTERVAL seconds have passed since last_activity.
C36_LastActivityAndKeepAlive ==
    [][\A s \in Sessions :
          /\ Logs(s, {"send-keep-alive", "request", "message", "keep-alive"})
                => socklog'[s].idle = 0
          /\ (s \in DOMAIN socklog /\ ~socklog[s].checked /\ socklog'[s].checked)
                => (Logs(s, {"send-keep-alive", "send-fail"})
                        <=> socklog[s].idle > KEEPALIVE_INTERVAL)]_vars

\* ------------------------------------------------------------------------
\* How the requested set of a piece changes (checked under Spec)
\* ------------------------------------------------------------------------
\* the step is the end of a get_next_request call of session s that returns
\* an offset of piece i: it adds that offset to requested of piece i and
\* changes nothing else of the coordinator
AddsReturnedOffset(s, i) ==
    LET c == peer_connections[s]
    IN /\ c.pc = "gnr_add"
       /\ lock = s
       /\ c.req # None
       /\ c.req[1] = i
       /\ c.req[2] \notin piece_info[i].requested
       /\ piece_info' = [piece_info EXCEPT ![i].requested = @ \cup {c.req[2]}]
       /\ completed_pieces' = completed_pieces

\* the step is a deposit into piece i whose verification fails: blocks and
\* requested of the piece are emptied and nothing else of the coordinator
\* changes
EmptiedByFailedVerification(i) ==
    /\ piece_info' = [piece_info EXCEPT ![i].blocks = <<>>, ![i].requested = {}]
    /\ piece_info[i].requested # {}
    /\ completed_pieces' = completed_pieces

\* C37: a step that changes the requested set of a piece is either the end
\* of a get_next_request call, which adds the one offset it returns and
\* changes nothing else, or a deposit whose verification fails, which
\* empties the set; a step in which a piece becomes complete leaves its
\* requested set as it is, and a step in which a session ends removes no
\* offset from any requested set, unless it is that of a deposit whose
\* verification fails.
C37_RequestedChangesInTwoWays ==
    [][/\ piece_info' # piece_info =>
            \A i \in DOMAIN piece_info :
                piece_info'[i].requested # piece_info[i].requested =>
                    \/ \E s \in Sessions : AddsReturnedOffset(s, i)
                    \/ EmptiedByFailedVerification(i)
       /\ \A i \in DOMAIN piece_info :
             (piece_info'[i].complete /\ ~piece_info[i].complete)
                 => piece_info'[i].requested = piece_info[i].requested
       /\ \A s \in Sessions :
             (peer_connections'[s].pc = "done" /\ peer_connections[s].pc # "done")
                 => \A i \in DOMAIN piece_info :
                       \/ piece_info[i].requested \subseteq piece_info'[i].requested
                       \/ EmptiedByFailedVerification(i)]_vars

\* a piece is complete and an offset of it is still in requested, and a
\* session that was handed a request has ended
C37_Witness ==
    /\ \E i \in DOMAIN piece_info :
          piece_info[i].complete /\ piece_info[i].requested # {}
    /\ \E s \in Sessions :
          peer_connections[s].pc = "done" /\ issued[s] # <<>>

\* ------------------------------------------------------------------------
\* Re-announces after a session has given up
\* ------------------------------------------------------------------------
\* the first announce names one peer, which refuses every connection; the
\* later announces are answered with any peer list
NextKnown ==
    \/ AnnounceWire
    \/ SupLoopHead
    \/ Tick
    \/ SupInterrupt
    \/ SupStop
    \/ SupFinish
    \/ ConnectRefused
    \/ GiveUp

SpecKnown == Init /\ [][NextKnown]_vars

\* C38: the endpoint of every session is in existing_peers; no step removes
\* an endpoint from existing_peers, nor removes or rebinds a session of the
\* list; and a session appended by a re-announce has an endpoint that no
\* earlier session has, terminated or not, and that was not known.
C38_KnownPeersOnlyGrow ==
    /\ [](\A s \in Sessions : peer_connections[s].ep \in sup.existing_peers)
    /\ [][/\ sup.existing_peers \subseteq sup'.existing_peers
          /\ Len(peer_connections) <= Len(peer_connections')
          /\ \A s \in Sessions : peer_connections'[s].ep = peer_connections[s].ep
          /\ sup.pc = "tick" =>
                \A t \in (Len(peer_connections) + 1)..Len(peer_connections') :
                    /\ peer_connections'[t].ep \notin sup.existing_peers
                    /\ \A s \in Sessions :
                          peer_connections'[t].ep # peer_connections[s].ep]_vars

\* the first session has given up connecting and a re-announce, made after
\* that, has admitted one other endpoint whose session has not yet run
C38_Witness ==
    /\ Len(peer_connections) = 2
    /\ Terminated(1)
    /\ peer_connections[1].running
    /\ sup.pc = "loop"
    /\ sup.reannounced
    /\ sup.admitted = 1
    /\ peer_connections[2] = NewPeerConnection(peer_connections[2].ep)
    /\ peer_connections[2].ep # peer_connections[1].ep

TypeOK ==
    /\ lock \in {0} \cup Sessions
    /\ \A s \in Sessions : peer_connections[s].attempt \in 0..max_retries

====
